---------------------------- MODULE Spec2Model ----------------------------
(***************************************************************************)
(* A model of the BFS/DFS/AVL simulator: the AVL tree                      *)
(* (internal/algorithms/avl.go), the stepwise traversal engine             *)
(* (BFSStep/DFSStep), the batch graph algorithms                           *)
(* (internal/algorithms/graph_algorithms.go) and the session object        *)
(* (simulator.Simulator) that drives them.                                 *)
(***************************************************************************)
EXTENDS Integers, Sequences, FiniteSets, TLC

(***************************************************************************)
(* Bounds of the model.                                                    *)
(***************************************************************************)
\* AVL values are drawn from 1..MaxValue in the tree-only specification.
MaxValue == 5
\* AVL values drawn by the session specification.
MaxSimValue == 1
\* The session's graphs have at most MaxNodes nodes and weights in 1..MaxWeight.
MaxNodes == 2
MaxWeight == 1
\* The traversal specification's graphs: at most MaxTravNodes nodes, each with
\* at most MaxDegree neighbors.
MaxTravNodes == 3
MaxDegree == 2
\* The weighted directed graphs given to the algorithms: at most MaxPathNodes
\* nodes, edge weights in 0..MaxPathWeight.
MaxPathNodes == 3
MaxPathWeight == 1
\* The undirected graphs given to the algorithms: at most MaxSpanNodes nodes,
\* edge weights in 1..MaxSpanWeight.
MaxSpanNodes == 3
MaxSpanWeight == 3
\* The graph editor adds nodes up to MaxEditNodes (the program stops at 15).
MaxEditNodes == 3

(***************************************************************************)
(* Go values: a nil pointer / nil slice / nil map is Nil, a non-nil one    *)
(* holding x is Some(x).                                                   *)
(***************************************************************************)
Nil == <<>>
Some(x) == <<x>>
IsNil(p) == Len(p) = 0
Deref(p) == p[1]

(***************************************************************************)
(* AVL tree.  Nodes live in an arena `h` (a function from node handles to  *)
(* node records); handle 0 is the nil pointer.  A tree is                  *)
(* [Root |-> handle, h |-> arena].                                         *)
(***************************************************************************)
nil == 0

AVLNode(value) ==
    [Value |-> value, Left |-> nil, Right |-> nil, Height |-> 1,
     Parent |-> nil, X |-> 0, Y |-> 0]

\* A fresh handle: the address of a newly allocated node.
NewHandle(h) == CHOOSE i \in 1..(Cardinality(DOMAIN h) + 1) : i \notin DOMAIN h

\* The arena with one more node, and the arena without an unreachable node.
Alloc(h, id, node) == [i \in (DOMAIN h) \cup {id} |-> IF i = id THEN node ELSE h[i]]
Free(h, id) == [i \in (DOMAIN h) \ {id} |-> h[i]]

NewAVLTree == [Root |-> nil, h |-> [i \in {} |-> AVLNode(0)]]

max(a, b) == IF a > b THEN a ELSE b

getHeight(h, node) == IF node = nil THEN 0 ELSE h[node].Height

getBalance(h, node) ==
    IF node = nil THEN 0
    ELSE getHeight(h, h[node].Left) - getHeight(h, h[node].Right)

\* rightRotate without the height updates of lines 59-60.
rightRotateStaleHeights(h, y) ==
    LET x  == h[y].Left
        T2 == h[x].Right
        h1 == [h EXCEPT ![x].Right = y, ![y].Left = T2]
        h4 == IF T2 # nil THEN [h1 EXCEPT ![T2].Parent = y] ELSE h1
        h5 == [h4 EXCEPT ![x].Parent = h4[y].Parent]
        h6 == [h5 EXCEPT ![y].Parent = x]
    IN  [h |-> h6, r |-> x]

rightRotate(h, y) ==
    LET x  == h[y].Left
        T2 == h[x].Right
        h1 == [h EXCEPT ![x].Right = y, ![y].Left = T2]
        h2 == [h1 EXCEPT ![y].Height =
                  max(getHeight(h1, h1[y].Left), getHeight(h1, h1[y].Right)) + 1]
        h3 == [h2 EXCEPT ![x].Height =
                  max(getHeight(h2, h2[x].Left), getHeight(h2, h2[x].Right)) + 1]
        h4 == IF T2 # nil THEN [h3 EXCEPT ![T2].Parent = y] ELSE h3
        h5 == [h4 EXCEPT ![x].Parent = h4[y].Parent]
        h6 == [h5 EXCEPT ![y].Parent = x]
    IN  [h |-> h6, r |-> x]

\* leftRotate without the y.Parent = x.Parent of line 89.
leftRotateKeepsParent(h, x) ==
    LET y  == h[x].Right
        T2 == h[y].Left
        h1 == [h EXCEPT ![y].Left = x, ![x].Right = T2]
        h2 == [h1 EXCEPT ![x].Height =
                  max(getHeight(h1, h1[x].Left), getHeight(h1, h1[x].Right)) + 1]
        h3 == [h2 EXCEPT ![y].Height =
                  max(getHeight(h2, h2[y].Left), getHeight(h2, h2[y].Right)) + 1]
        h4 == IF T2 # nil THEN [h3 EXCEPT ![T2].Parent = x] ELSE h3
        h6 == [h4 EXCEPT ![x].Parent = y]
    IN  [h |-> h6, r |-> y]

leftRotate(h, x) ==
    LET y  == h[x].Right
        T2 == h[y].Left
        h1 == [h EXCEPT ![y].Left = x, ![x].Right = T2]
        h2 == [h1 EXCEPT ![x].Height =
                  max(getHeight(h1, h1[x].Left), getHeight(h1, h1[x].Right)) + 1]
        h3 == [h2 EXCEPT ![y].Height =
                  max(getHeight(h2, h2[y].Left), getHeight(h2, h2[y].Right)) + 1]
        h4 == IF T2 # nil THEN [h3 EXCEPT ![T2].Parent = x] ELSE h3
        h5 == [h4 EXCEPT ![y].Parent = h4[x].Parent]
        h6 == [h5 EXCEPT ![x].Parent = y]
    IN  [h |-> h6, r |-> y]

\* insertNode, lines 120-148: update the height of `node` and rebalance it.
insertRebalance(h0, node, value) ==
    LET h == [h0 EXCEPT ![node].Height =
                 1 + max(getHeight(h0, h0[node].Left), getHeight(h0, h0[node].Right))]
        balance == getBalance(h, node)
    IN  IF balance > 1 /\ value < h[h[node].Left].Value THEN
            rightRotate(h, node)
        ELSE IF balance < -1 /\ value > h[h[node].Right].Value THEN
            leftRotate(h, node)
        ELSE IF balance > 1 /\ value > h[h[node].Left].Value THEN
            LET s == leftRotate(h, h[node].Left)
            IN  rightRotate([s.h EXCEPT ![node].Left = s.r], node)
        ELSE IF balance < -1 /\ value < h[h[node].Right].Value THEN
            LET s == rightRotate(h, h[node].Right)
            IN  leftRotate([s.h EXCEPT ![node].Right = s.r], node)
        ELSE [h |-> h, r |-> node]

\* insertNode sending a value equal to the node's to the right, as if line 113
\* read `else` for `else if value > node.Value`.
RECURSIVE insertNodeDuplicatesRight(_, _, _)
insertNodeDuplicatesRight(h, node, value) ==
    IF node = nil THEN
        LET id == NewHandle(h)
        IN  [h |-> Alloc(h, id, AVLNode(value)), r |-> id]
    ELSE IF value < h[node].Value THEN
        LET s  == insertNodeDuplicatesRight(h, h[node].Left, value)
            h1 == [s.h EXCEPT ![node].Left = s.r]
            h2 == [h1 EXCEPT ![s.r].Parent = node]
        IN  insertRebalance(h2, node, value)
    ELSE
        LET s  == insertNodeDuplicatesRight(h, h[node].Right, value)
            h1 == [s.h EXCEPT ![node].Right = s.r]
            h2 == [h1 EXCEPT ![s.r].Parent = node]
        IN  insertRebalance(h2, node, value)

RECURSIVE insertNode(_, _, _)
insertNode(h, node, value) ==
    IF node = nil THEN
        LET id == NewHandle(h)
        IN  [h |-> Alloc(h, id, AVLNode(value)), r |-> id]
    ELSE IF value < h[node].Value THEN
        LET s  == insertNode(h, h[node].Left, value)
            h1 == [s.h EXCEPT ![node].Left = s.r]
            h2 == [h1 EXCEPT ![s.r].Parent = node]
        IN  insertRebalance(h2, node, value)
    ELSE IF value > h[node].Value THEN
        LET s  == insertNode(h, h[node].Right, value)
            h1 == [s.h EXCEPT ![node].Right = s.r]
            h2 == [h1 EXCEPT ![s.r].Parent = node]
        IN  insertRebalance(h2, node, value)
    ELSE [h |-> h, r |-> node]

Insert(t, value) ==
    LET s == insertNode(t.h, t.Root, value)
    IN  [Root |-> s.r, h |-> s.h]

\* getMinValueNode without the descent to the left.
getMinValueNodeNoDescent(h, node) == node

RECURSIVE getMinValueNode(_, _)
getMinValueNode(h, node) ==
    IF h[node].Left # nil THEN getMinValueNode(h, h[node].Left) ELSE node

\* deleteNode, lines 195-223: update the height of `node` and rebalance it.
deleteRebalance(h0, node) ==
    LET h == [h0 EXCEPT ![node].Height =
                 1 + max(getHeight(h0, h0[node].Left), getHeight(h0, h0[node].Right))]
        balance == getBalance(h, node)
    IN  IF balance > 1 /\ getBalance(h, h[node].Left) >= 0 THEN
            rightRotate(h, node)
        ELSE IF balance > 1 /\ getBalance(h, h[node].Left) < 0 THEN
            LET s == leftRotate(h, h[node].Left)
            IN  rightRotate([s.h EXCEPT ![node].Left = s.r], node)
        ELSE IF balance < -1 /\ getBalance(h, h[node].Right) <= 0 THEN
            leftRotate(h, node)
        ELSE IF balance < -1 /\ getBalance(h, h[node].Right) > 0 THEN
            LET s == rightRotate(h, h[node].Right)
            IN  leftRotate([s.h EXCEPT ![node].Right = s.r], node)
        ELSE [h |-> h, r |-> node]

RECURSIVE deleteNode(_, _, _)
deleteNode(h, node, value) ==
    IF node = nil THEN [h |-> h, r |-> nil]
    ELSE IF value < h[node].Value THEN
        LET s == deleteNode(h, h[node].Left, value)
        IN  deleteRebalance([s.h EXCEPT ![node].Left = s.r], node)
    ELSE IF value > h[node].Value THEN
        LET s == deleteNode(h, h[node].Right, value)
        IN  deleteRebalance([s.h EXCEPT ![node].Right = s.r], node)
    ELSE IF h[node].Left = nil THEN
        LET temp == h[node].Right
            h1   == IF temp # nil THEN [h EXCEPT ![temp].Parent = h[node].Parent] ELSE h
        IN  [h |-> Free(h1, node), r |-> temp]
    ELSE IF h[node].Right = nil THEN
        LET temp == h[node].Left
            h1   == IF temp # nil THEN [h EXCEPT ![temp].Parent = h[node].Parent] ELSE h
        IN  [h |-> Free(h1, node), r |-> temp]
    ELSE
        LET temp == getMinValueNode(h, h[node].Right)
            h1   == [h EXCEPT ![node].Value = h[temp].Value]
            s    == deleteNode(h1, h1[node].Right, h1[temp].Value)
        IN  deleteRebalance([s.h EXCEPT ![node].Right = s.r], node)

Delete(t, value) ==
    LET s == deleteNode(t.h, t.Root, value)
    IN  [Root |-> s.r, h |-> s.h]

RECURSIVE searchNode(_, _, _)
searchNode(h, node, value) ==
    IF node = nil \/ h[node].Value = value THEN node
    ELSE IF value < h[node].Value THEN searchNode(h, h[node].Left, value)
    ELSE searchNode(h, h[node].Right, value)

Search(t, value) == searchNode(t.h, t.Root, value)

RECURSIVE updateNodePositions(_, _, _, _, _, _)
updateNodePositions(h, node, x, y, levelHeight, level) ==
    IF node = nil THEN h
    ELSE
        LET spacing == 2 ^ (level + 2)
            h1 == [h EXCEPT ![node].X = x, ![node].Y = y]
            h2 == IF h1[node].Left # nil
                  THEN updateNodePositions(h1, h1[node].Left, x - spacing,
                                           y + levelHeight, levelHeight, level + 1)
                  ELSE h1
        IN  IF h2[node].Right # nil
            THEN updateNodePositions(h2, h2[node].Right, x + spacing,
                                     y + levelHeight, levelHeight, level + 1)
            ELSE h2

UpdatePositions(t, startX, startY, levelHeight) ==
    [t EXCEPT !.h = updateNodePositions(t.h, t.Root, startX, startY, levelHeight, 0)]


(***************************************************************************)
(* Graph (internal/graph/graph.go).  Node i of the Go slice is Nodes[i+1]. *)
(***************************************************************************)
Node(x, y) == [X |-> x, Y |-> y, Neighbors |-> <<>>, Weights |-> <<>>]

Edge(from, to, weight) == [From |-> from, To |-> to, Weight |-> weight]

NumNodes(g) == Len(g.Nodes)

\* NewRandomGraph, lines 31-42: n nodes on a grid, no edges yet.
GridGraph(n) ==
    [Nodes |-> [i \in 1..n |-> Node(60 + ((i - 1) % 5) * 80, 60 + ((i - 1) \div 5) * 80)],
     Edges |-> <<>>,
     WeightedEdges |-> <<>>]

\* NewRandomGraph, lines 59-66: one accepted edge a-b of the given weight.
AddRandomEdge(g, a, b, weight) ==
    LET n1 == [g.Nodes EXCEPT ![a + 1].Neighbors = Append(@, b),
                              ![a + 1].Weights = Append(@, weight)]
        n2 == [n1 EXCEPT ![b + 1].Neighbors = Append(@, a),
                         ![b + 1].Weights = Append(@, weight)]
    IN  [Nodes |-> n2,
         Edges |-> Append(g.Edges, <<a, b>>),
         WeightedEdges |-> Append(g.WeightedEdges, Edge(a, b, weight))]

\* NewRandomGraph, line 54: the draw (a, b) is accepted.
EdgeAccepted(g, a, b) ==
    /\ a # b
    /\ \A i \in 1..Len(g.Edges) : g.Edges[i] # <<a, b>> /\ g.Edges[i] # <<b, a>>

\* The graphs NewRandomGraph(n) can return after at most k accepted draws with
\* weights in 1..maxw (the code draws 2n times and a real weight in [1, 10)).
RECURSIVE RandomGraphs(_, _, _)
RandomGraphs(n, k, maxw) ==
    IF k = 0 THEN {GridGraph(n)}
    ELSE LET prev == RandomGraphs(n, k - 1, maxw)
         IN  prev \cup
             { AddRandomEdge(g, e[1], e[2], e[3]) :
                 <<g, e>> \in { <<g, e>> \in prev \X ((0..(n - 1)) \X (0..(n - 1)) \X (1..maxw)) :
                                 EdgeAccepted(g, e[1], e[2]) } }

NewRandomGraph(n, maxw) == RandomGraphs(n, 2 * n, maxw)

GetUnweightedNeighbors(g) == [i \in 0..(NumNodes(g) - 1) |-> g.Nodes[i + 1].Neighbors]

GetWeightedNeighbors(g) ==
    [i \in 0..(NumNodes(g) - 1) |->
        [j \in 1..Len(g.Nodes[i + 1].Neighbors) |->
            Edge(i, g.Nodes[i + 1].Neighbors[j],
                 IF j <= Len(g.Nodes[i + 1].Weights) THEN g.Nodes[i + 1].Weights[j] ELSE 1)]]

GetPositions(g) == [i \in 0..(NumNodes(g) - 1) |-> [X |-> g.Nodes[i + 1].X, Y |-> g.Nodes[i + 1].Y]]

SeqRange(s) == {s[i] : i \in 1..Len(s)}

\* A Go map read: the zero value (a nil slice) for a missing key.
Lookup(m, k) == IF k \in DOMAIN m THEN m[k] ELSE <<>>

(***************************************************************************)
(* The graph editor (internal/ui/game.go): each operation maps the         *)
(* session's graph to the edited one.  The editor's own fields (start      *)
(* node, redraw flag, message) are not part of the graph.                  *)
(***************************************************************************)
\* addNode: the new node has an empty neighbor list and no weight list.
addNode(g, x, y) == [g EXCEPT !.Nodes = Append(@, Node(x, y))]

\* removeNode, lines 1209-1214 and 1231-1234: an id above the removed one
\* moves down by one.
AdjustIndex(id, index) == IF id > index THEN id - 1 ELSE id

\* removeNode: Edges and Neighbors are rewritten, the node is cut out of
\* Nodes; Weights and WeightedEdges are not touched.
removeNode(g, index) ==
    LET kept == SelectSeq(g.Edges, LAMBDA edge : edge[1] # index /\ edge[2] # index)
        newEdges == [k \in 1..Len(kept) |->
                        <<AdjustIndex(kept[k][1], index), AdjustIndex(kept[k][2], index)>>]
        newNeighbors(nbs) ==
            LET left == SelectSeq(nbs, LAMBDA nb : nb # index)
            IN  [k \in 1..Len(left) |-> AdjustIndex(left[k], index)]
        nodes == [i \in 1..Len(g.Nodes) |->
                     IF i - 1 = index THEN g.Nodes[i]
                     ELSE [g.Nodes[i] EXCEPT !.Neighbors = newNeighbors(@)]]
    IN  [Nodes |-> SubSeq(nodes, 1, index) \o SubSeq(nodes, index + 2, Len(nodes)),
         Edges |-> newEdges,
         WeightedEdges |-> g.WeightedEdges]

\* addEdge: nothing when the edge exists in either direction; otherwise Edges
\* and the two neighbor lists grow, the weight lists do not.
addEdge(g, a, b) ==
    IF \E i \in 1..Len(g.Edges) : g.Edges[i] = <<a, b>> \/ g.Edges[i] = <<b, a>>
    THEN g
    ELSE LET n1 == [g.Nodes EXCEPT ![a + 1].Neighbors = Append(@, b)]
             n2 == [n1 EXCEPT ![b + 1].Neighbors = Append(@, a)]
         IN  [g EXCEPT !.Edges = Append(@, <<a, b>>), !.Nodes = n2]

removeFromNeighbors(g, nodeIndex, neighborToRemove) ==
    [g EXCEPT !.Nodes[nodeIndex + 1].Neighbors =
                  SelectSeq(@, LAMBDA n : n # neighborToRemove)]

\* removeEdge: the first edge a-b of Edges, in either direction, is cut out
\* and each end is taken off the other's neighbor list; nothing when there
\* is no such edge.
removeEdge(g, a, b) ==
    LET found == {i \in 1..Len(g.Edges) : g.Edges[i] = <<a, b>> \/ g.Edges[i] = <<b, a>>}
    IN  IF found = {} THEN g
        ELSE LET edgeIndex == CHOOSE i \in found : \A j \in found : i <= j
                 g1 == [g EXCEPT !.Edges = SubSeq(@, 1, edgeIndex - 1) \o
                                           SubSeq(@, edgeIndex + 1, Len(@))]
             IN  removeFromNeighbors(removeFromNeighbors(g1, a, b), b, a)

\* clearNodeEdges: the node's edges leave Edges, its neighbor list is emptied
\* and it leaves every other neighbor list.
clearNodeEdges(g, nodeIndex) ==
    [g EXCEPT !.Edges = SelectSeq(@, LAMBDA edge : edge[1] # nodeIndex /\ edge[2] # nodeIndex),
              !.Nodes = [i \in 1..Len(g.Nodes) |->
                            IF i - 1 = nodeIndex
                            THEN [g.Nodes[i] EXCEPT !.Neighbors = <<>>]
                            ELSE [g.Nodes[i] EXCEPT !.Neighbors =
                                     SelectSeq(@, LAMBDA nb : nb # nodeIndex)]]]

(***************************************************************************)
(* Stepwise traversal engine.  A step returns                              *)
(* [frontier, nextNode, isDone].                                           *)
(***************************************************************************)
Unvisited(visited, nbs) == SelectSeq(nbs, LAMBDA nb : nb \notin visited)

\* BFSStep without the visited test of line 26: a dequeued id is always reported.
BFSStepRevisit(queue, visited, neighbors) ==
    IF Len(queue) = 0 THEN [frontier |-> queue, nextNode |-> -1, isDone |-> TRUE]
    ELSE LET n == queue[1]
             q == Tail(queue)
         IN  [frontier |-> q \o Unvisited(visited, Lookup(neighbors, n)),
              nextNode |-> n, isDone |-> FALSE]

\* BFSStep reporting done as soon as the dequeue leaves the queue empty.
BFSStepEagerDone(queue, visited, neighbors) ==
    IF Len(queue) = 0 THEN [frontier |-> queue, nextNode |-> -1, isDone |-> TRUE]
    ELSE LET n == queue[1]
             q == Tail(queue)
         IN  IF n \in visited THEN [frontier |-> q, nextNode |-> -1, isDone |-> q = <<>>]
             ELSE LET f == q \o Unvisited(visited, Lookup(neighbors, n))
                  IN  [frontier |-> f, nextNode |-> n, isDone |-> f = <<>>]

\* BFSStep taking the id at the back of the queue instead of the front.
BFSStepAsStack(queue, visited, neighbors) ==
    IF Len(queue) = 0 THEN [frontier |-> queue, nextNode |-> -1, isDone |-> TRUE]
    ELSE LET n == queue[Len(queue)]
             q == SubSeq(queue, 1, Len(queue) - 1)
         IN  IF n \in visited THEN [frontier |-> q, nextNode |-> -1, isDone |-> FALSE]
             ELSE [frontier |-> q \o Unvisited(visited, Lookup(neighbors, n)),
                   nextNode |-> n, isDone |-> FALSE]

BFSStep(queue, visited, neighbors) ==
    IF Len(queue) = 0 THEN [frontier |-> queue, nextNode |-> -1, isDone |-> TRUE]
    ELSE LET n == queue[1]
             q == Tail(queue)
         IN  IF n \in visited THEN [frontier |-> q, nextNode |-> -1, isDone |-> FALSE]
             ELSE [frontier |-> q \o Unvisited(visited, Lookup(neighbors, n)),
                   nextNode |-> n, isDone |-> FALSE]

\* DFSStep taking the id at the bottom of the stack instead of the top.
DFSStepAsQueue(stack, visited, neighbors) ==
    IF Len(stack) = 0 THEN [frontier |-> stack, nextNode |-> -1, isDone |-> TRUE]
    ELSE LET n == stack[1]
             st == Tail(stack)
         IN  IF n \in visited THEN [frontier |-> st, nextNode |-> -1, isDone |-> FALSE]
             ELSE [frontier |-> st \o Unvisited(visited, Lookup(neighbors, n)),
                   nextNode |-> n, isDone |-> FALSE]

\* DFSStep pushing only the first unvisited neighbor, as if the loop of
\* lines 57-61 broke after its first append.
DFSStepFirstNeighborOnly(stack, visited, neighbors) ==
    IF Len(stack) = 0 THEN [frontier |-> stack, nextNode |-> -1, isDone |-> TRUE]
    ELSE LET n == stack[Len(stack)]
             st == SubSeq(stack, 1, Len(stack) - 1)
             nbs == Unvisited(visited, Lookup(neighbors, n))
         IN  IF n \in visited THEN [frontier |-> st, nextNode |-> -1, isDone |-> FALSE]
             ELSE [frontier |-> st \o (IF nbs = <<>> THEN <<>> ELSE <<nbs[1]>>),
                   nextNode |-> n, isDone |-> FALSE]

DFSStep(stack, visited, neighbors) ==
    IF Len(stack) = 0 THEN [frontier |-> stack, nextNode |-> -1, isDone |-> TRUE]
    ELSE LET n == stack[Len(stack)]
             st == SubSeq(stack, 1, Len(stack) - 1)
         IN  IF n \in visited THEN [frontier |-> st, nextNode |-> -1, isDone |-> FALSE]
             ELSE [frontier |-> st \o Unvisited(visited, Lookup(neighbors, n)),
                   nextNode |-> n, isDone |-> FALSE]


(***************************************************************************)
(* Go maps: a function on the keys present.                                *)
(***************************************************************************)
EmptyMap == [x \in {} |-> 0]
MapSet(m, k, v) == [x \in (DOMAIN m) \cup {k} |-> IF x = k THEN v ELSE m[x]]
\* A read gives the zero value for a missing key.
MapGet(m, k, zero) == IF k \in DOMAIN m THEN m[k] ELSE zero

(***************************************************************************)
(* float64 values met by the algorithms: g + sqrt(k) for integers g and    *)
(* k >= 0 (k # 0 only in A*'s f-scores), and +Inf.                         *)
(***************************************************************************)
Inf == 1000000
Real(g) == [g |-> g, k |-> 0]
\* a + sqrt(b) < c + sqrt(d), decided exactly in integers.
\* (m * m is not formed when m is past the square root of the largest integer:
\* it is then the larger side.)
SqrtLess(g1, k1, g2, k2) ==
    LET d == g2 - g1
    IN  IF d >= 0
        THEN LET m == k1 - d * d - k2
             IN  m < 0 \/ (m <= 46340 /\ m * m < 4 * d * d * k2)
        ELSE LET m == k2 - k1 - d * d
             IN  m > 0 /\ (m > 46340 \/ 4 * d * d * k1 < m * m)
FloatLess(a, b) ==
    IF a.g >= Inf THEN FALSE
    ELSE IF b.g >= Inf THEN TRUE
    ELSE SqrtLess(a.g, a.k, b.g, b.k)
\* Addition of finite weights and distances; +Inf absorbs.
FloatAdd(a, b) == IF a >= Inf \/ b >= Inf THEN Inf ELSE a + b

(***************************************************************************)
(* PriorityQueue under container/heap.  The slice element of index i is    *)
(* pq[i + 1]; an item is [Node, Priority].                                 *)
(***************************************************************************)
PriorityQueueItem(node, priority) == [Node |-> node, Priority |-> priority]

\* Less with the comparison turned round: the heap gives the largest first.
LessReversed(pq, i, j) == FloatLess(pq[j + 1].Priority, pq[i + 1].Priority)

Less(pq, i, j) == FloatLess(pq[i + 1].Priority, pq[j + 1].Priority)

Swap(pq, i, j) == [pq EXCEPT ![i + 1] = pq[j + 1], ![j + 1] = pq[i + 1]]

\* container/heap up(h, j)
RECURSIVE up(_, _)
up(pq, j) ==
    LET i == IF j = 0 THEN 0 ELSE (j - 1) \div 2
    IN  IF i = j \/ ~Less(pq, j, i) THEN pq
        ELSE up(Swap(pq, i, j), i)

\* container/heap down(h, i0, n)
RECURSIVE down(_, _, _)
down(pq, i, n) ==
    LET j1 == 2 * i + 1
    IN  IF j1 >= n THEN pq
        ELSE LET j2 == j1 + 1
                 j  == IF j2 < n /\ Less(pq, j2, j1) THEN j2 ELSE j1
             IN  IF ~Less(pq, j, i) THEN pq
                 ELSE down(Swap(pq, i, j), j, n)

\* heap.Push(pq, item)
HeapPush(pq, item) == up(Append(pq, item), Len(pq))

\* heap.Pop(pq): [item, pq]
HeapPop(pq) ==
    LET n == Len(pq) - 1
        q == down(Swap(pq, 0, n), 0, n)
    IN  [item |-> q[n + 1], pq |-> SubSeq(q, 1, n)]

(***************************************************************************)
(* Dijkstra.  The loop state is [dist, prev, visited, pq].                 *)
(***************************************************************************)
\* The edge loop without line 88: a shorter distance is stored, its
\* predecessor is not.
RECURSIVE DijkstraRelaxKeepsPrev(_, _, _, _)
DijkstraRelaxKeepsPrev(st, edges, i, current) ==
    IF i > Len(edges) THEN st
    ELSE LET edge == edges[i]
             newDist == FloatAdd(MapGet(st.dist, current, 0), edge.Weight)
         IN  IF edge.To \in st.visited THEN DijkstraRelaxKeepsPrev(st, edges, i + 1, current)
             ELSE IF newDist < MapGet(st.dist, edge.To, 0)
             THEN DijkstraRelaxKeepsPrev(
                      [st EXCEPT !.dist = MapSet(st.dist, edge.To, newDist),
                                 !.pq = HeapPush(st.pq, PriorityQueueItem(edge.To, Real(newDist)))],
                      edges, i + 1, current)
             ELSE DijkstraRelaxKeepsPrev(st, edges, i + 1, current)

\* lines 80-91: relax the edges of current from the i-th on.
RECURSIVE DijkstraRelax(_, _, _, _)
DijkstraRelax(st, edges, i, current) ==
    IF i > Len(edges) THEN st
    ELSE LET edge == edges[i]
             newDist == FloatAdd(MapGet(st.dist, current, 0), edge.Weight)
         IN  IF edge.To \in st.visited THEN DijkstraRelax(st, edges, i + 1, current)
             ELSE IF newDist < MapGet(st.dist, edge.To, 0)
             THEN DijkstraRelax(
                      [st EXCEPT !.dist = MapSet(st.dist, edge.To, newDist),
                                 !.prev = MapSet(st.prev, edge.To, current),
                                 !.pq = HeapPush(st.pq, PriorityQueueItem(edge.To, Real(newDist)))],
                      edges, i + 1, current)
             ELSE DijkstraRelax(st, edges, i + 1, current)

\* lines 72-92
RECURSIVE DijkstraLoop(_, _)
DijkstraLoop(st, neighbors) ==
    IF Len(st.pq) = 0 THEN st
    ELSE LET p == HeapPop(st.pq)
             current == p.item.Node
             st1 == [st EXCEPT !.pq = p.pq]
         IN  IF current \in st1.visited THEN DijkstraLoop(st1, neighbors)
             ELSE DijkstraLoop(
                      DijkstraRelax([st1 EXCEPT !.visited = @ \cup {current}],
                                    Lookup(neighbors, current), 1, current),
                      neighbors)

\* Dijkstra: [dist, prev]
Dijkstra(neighbors, source, numNodes) ==
    LET dist0 == [i \in 0..(numNodes - 1) |-> Inf]
        prev0 == [i \in 0..(numNodes - 1) |-> -1]
        st == DijkstraLoop(
                  [dist |-> MapSet(dist0, source, 0), prev |-> prev0, visited |-> {},
                   pq |-> HeapPush(<<>>, PriorityQueueItem(source, Real(0)))],
                  neighbors)
    IN  [dist |-> st.dist, prev |-> st.prev]


(***************************************************************************)
(* A*.  The loop state is [gScore, fScore, cameFrom, openSet]; an f-score  *)
(* is the float gScore + sqrt(squared distance to the goal).               *)
(***************************************************************************)
\* heuristic(a, b), squared: the float returned is its square root.
heuristicSquared(a, b) == (a.X - b.X) * (a.X - b.X) + (a.Y - b.Y) * (a.Y - b.Y)

Position(positions, i) == MapGet(positions, i, [X |-> 0, Y |-> 0])

FScore(g, positions, node, goal) ==
    [g |-> g, k |-> heuristicSquared(Position(positions, node), Position(positions, goal))]

\* The reconstruction appending each node instead of prepending it, as if
\* line 127 read append(path, current).
RECURSIVE ReconstructPathAppends(_, _, _)
ReconstructPathAppends(cameFrom, current, path) ==
    IF current = -1 THEN path
    ELSE IF current \in DOMAIN cameFrom
         THEN ReconstructPathAppends(cameFrom, cameFrom[current], path \o <<current>>)
         ELSE path \o <<current>>

\* lines 125-133: the path ending in `path`, walked back from current.
RECURSIVE ReconstructPath(_, _, _)
ReconstructPath(cameFrom, current, path) ==
    IF current = -1 THEN path
    ELSE IF current \in DOMAIN cameFrom
         THEN ReconstructPath(cameFrom, cameFrom[current], <<current>> \o path)
         ELSE <<current>> \o path

\* lines 137-147
RECURSIVE AStarRelax(_, _, _, _, _, _)
AStarRelax(st, edges, i, current, goal, positions) ==
    IF i > Len(edges) THEN st
    ELSE LET edge == edges[i]
             tentativeGScore == FloatAdd(MapGet(st.gScore, current, 0), edge.Weight)
         IN  IF tentativeGScore < MapGet(st.gScore, edge.To, 0)
             THEN LET f == FScore(tentativeGScore, positions, edge.To, goal)
                  IN  AStarRelax(
                          [st EXCEPT !.cameFrom = MapSet(st.cameFrom, edge.To, current),
                                     !.gScore = MapSet(st.gScore, edge.To, tentativeGScore),
                                     !.fScore = MapSet(st.fScore, edge.To, f),
                                     !.openSet = HeapPush(st.openSet, PriorityQueueItem(edge.To, f))],
                          edges, i + 1, current, goal, positions)
             ELSE AStarRelax(st, edges, i + 1, current, goal, positions)

\* lines 120-150: [path, cost], path Nil when the open set runs empty.
RECURSIVE AStarLoop(_, _, _, _)
AStarLoop(st, neighbors, goal, positions) ==
    IF Len(st.openSet) = 0 THEN [path |-> Nil, cost |-> Inf]
    ELSE LET p == HeapPop(st.openSet)
             current == p.item.Node
             st1 == [st EXCEPT !.openSet = p.pq]
         IN  IF current = goal
             THEN [path |-> Some(ReconstructPath(st1.cameFrom, current, <<>>)),
                   cost |-> MapGet(st1.gScore, goal, 0)]
             ELSE AStarLoop(AStarRelax(st1, Lookup(neighbors, current), 1, current, goal, positions),
                            neighbors, goal, positions)

AStar(neighbors, start, goal, positions) ==
    LET g0 == [i \in DOMAIN neighbors |-> Inf]
        f0 == [i \in DOMAIN neighbors |-> Real(Inf)]
        fs == FScore(0, positions, start, goal)
    IN  AStarLoop([gScore |-> MapSet(g0, start, 0),
                   fScore |-> MapSet(f0, start, fs),
                   cameFrom |-> EmptyMap,
                   openSet |-> HeapPush(<<>>, PriorityQueueItem(start, fs))],
                  neighbors, goal, positions)

(***************************************************************************)
(* TopologicalSort.  The state is [visited, stack].                        *)
(***************************************************************************)
RECURSIVE TopoDfs(_, _, _)
RECURSIVE TopoNeighbors(_, _, _, _)
\* lines 168-172
TopoNeighbors(st, neighbors, nbs, i) ==
    IF i > Len(nbs) THEN st
    ELSE IF nbs[i] \notin st.visited
         THEN TopoNeighbors(TopoDfs(st, neighbors, nbs[i]), neighbors, nbs, i + 1)
         ELSE TopoNeighbors(st, neighbors, nbs, i + 1)

\* The dfs appending the finished node instead of prepending it.
TopoDfsAppends(st, neighbors, node) ==
    LET st1 == TopoNeighbors([st EXCEPT !.visited = @ \cup {node}], neighbors,
                             Lookup(neighbors, node), 1)
    IN  [st1 EXCEPT !.stack = st1.stack \o <<node>>]

\* lines 166-174
TopoDfs(st, neighbors, node) ==
    LET st1 == TopoNeighbors([st EXCEPT !.visited = @ \cup {node}], neighbors,
                             Lookup(neighbors, node), 1)
    IN  [st1 EXCEPT !.stack = <<node>> \o st1.stack]

\* lines 176-180
RECURSIVE TopoRoots(_, _, _, _)
TopoRoots(st, neighbors, i, numNodes) ==
    IF i >= numNodes THEN st
    ELSE IF i \notin st.visited
         THEN TopoRoots(TopoDfs(st, neighbors, i), neighbors, i + 1, numNodes)
         ELSE TopoRoots(st, neighbors, i + 1, numNodes)

TopologicalSort(neighbors, numNodes) ==
    TopoRoots([visited |-> {}, stack |-> <<>>], neighbors, 0, numNodes).stack

(***************************************************************************)
(* Kruskal.  sort.Slice sorts the caller's slice in place; for the short   *)
(* slices of the model it is an insertion sort.                            *)
(***************************************************************************)
\* insertion sort, inner loop: sink the element of index j while it is less
\* than the one before it.
RECURSIVE InsertionSink(_, _)
InsertionSink(edges, j) ==
    IF j > 1 /\ edges[j].Weight < edges[j - 1].Weight
    THEN InsertionSink([edges EXCEPT ![j] = edges[j - 1], ![j - 1] = edges[j]], j - 1)
    ELSE edges

RECURSIVE InsertionSort(_, _)
InsertionSort(edges, i) ==
    IF i > Len(edges) THEN edges
    ELSE InsertionSort(InsertionSink(edges, i), i + 1)

\* Kruskal without the sort of lines 188-190.
SortEdgesSkipped(edges) == edges

SortEdges(edges) == InsertionSort(edges, 2)

\* find, lines 201-206, on parent (index x is parent[x + 1]): [parent, root]
RECURSIVE find(_, _)
find(parent, x) ==
    IF parent[x + 1] # x
    THEN LET r == find(parent, parent[x + 1])
         IN  [parent |-> [r.parent EXCEPT ![x + 1] = r.root], root |-> r.root]
    ELSE [parent |-> parent, root |-> x]

\* union, lines 208-221: [parent, rank, ok]
union(parent, rank, x, y) ==
    LET fx == find(parent, x)
        fy == find(fx.parent, y)
        px0 == fx.root
        py0 == fy.root
        swap == rank[px0 + 1] < rank[py0 + 1]
        px == IF swap THEN py0 ELSE px0
        py == IF swap THEN px0 ELSE py0
    IN  IF px0 = py0 THEN [parent |-> fy.parent, rank |-> rank, ok |-> FALSE]
        ELSE [parent |-> [fy.parent EXCEPT ![py + 1] = px],
              rank |-> IF rank[px + 1] = rank[py + 1]
                       THEN [rank EXCEPT ![px + 1] = @ + 1] ELSE rank,
              ok |-> TRUE]

\* lines 223-231
RECURSIVE KruskalLoop(_, _, _, _, _, _)
KruskalLoop(parent, rank, mst, edges, i, numNodes) ==
    IF i > Len(edges) THEN mst
    ELSE LET u == union(parent, rank, edges[i].From, edges[i].To)
         IN  IF u.ok
             THEN LET mst1 == Append(mst, edges[i])
                  IN  IF Len(mst1) = numNodes - 1 THEN mst1
                      ELSE KruskalLoop(u.parent, u.rank, mst1, edges, i + 1, numNodes)
             ELSE KruskalLoop(u.parent, u.rank, mst, edges, i + 1, numNodes)

\* Kruskal: [mst, edges], edges being the caller's slice as the sort leaves it.
Kruskal(edges, numNodes) ==
    LET sorted == SortEdges(edges)
    IN  [mst |-> KruskalLoop([i \in 1..numNodes |-> i - 1], [i \in 1..numNodes |-> 0],
                             <<>>, sorted, 1, numNodes),
         edges |-> sorted]


(***************************************************************************)
(* Prim.  The loop state is [visited, mst, pq].  The scan for the accepted *)
(* edge ranges over a Go map, whose iteration order is not fixed: Prim is  *)
(* the set of the slices the call can return.                              *)
(***************************************************************************)
\* lines 249-251 and 288-292: push the edges of `edges` from the i-th on
\* whose far end is not in `skip`.
RECURSIVE PrimPush(_, _, _, _)
PrimPush(pq, edges, i, skip) ==
    IF i > Len(edges) THEN pq
    ELSE IF edges[i].To \in skip THEN PrimPush(pq, edges, i + 1, skip)
    ELSE PrimPush(HeapPush(pq, PriorityQueueItem(edges[i].To, Real(edges[i].Weight))),
                  edges, i + 1, skip)

\* The scan without the weight test of line 272: any visited node with an
\* edge to `node` is taken.
PrimMinEdgesAnyWeight(visited, neighbors, node, weight) ==
    { Edge(v, node, weight) :
        v \in { v \in visited \ {node} :
                  \E j \in 1..Len(Lookup(neighbors, v)) : Lookup(neighbors, v)[j].To = node } }

\* lines 265-281: the edges the scan can settle on, one per visited node that
\* has an edge of that weight to `node`.
PrimMinEdges(visited, neighbors, node, weight) ==
    { Edge(v, node, weight) :
        v \in { v \in visited \ {node} :
                  \E j \in 1..Len(Lookup(neighbors, v)) :
                      /\ Lookup(neighbors, v)[j].To = node
                      /\ Lookup(neighbors, v)[j].Weight = weight } }

\* lines 253-293
RECURSIVE PrimLoop(_, _, _)
PrimLoop(st, neighbors, numNodes) ==
    IF ~(Len(st.pq) > 0 /\ Len(st.mst) < numNodes - 1) THEN {st.mst}
    ELSE LET p == HeapPop(st.pq)
             node == p.item.Node
             weight == p.item.Priority.g
         IN  IF node \in st.visited
             THEN PrimLoop([st EXCEPT !.pq = p.pq], neighbors, numNodes)
             ELSE LET visited == st.visited \cup {node}
                      found == PrimMinEdges(visited, neighbors, node, weight)
                      pq == PrimPush(p.pq, Lookup(neighbors, node), 1, visited)
                  IN  IF found = {}
                      THEN PrimLoop([visited |-> visited, mst |-> st.mst, pq |-> pq],
                                    neighbors, numNodes)
                      ELSE UNION { PrimLoop([visited |-> visited, mst |-> Append(st.mst, e),
                                             pq |-> pq], neighbors, numNodes) : e \in found }

Prim(neighbors, numNodes) ==
    IF numNodes = 0 THEN {<<>>}
    ELSE PrimLoop([visited |-> {0}, mst |-> <<>>,
                   pq |-> PrimPush(<<>>, Lookup(neighbors, 0), 1, {})],
                  neighbors, numNodes)

(***************************************************************************)
(* Tarjan.  The state is [index, stack, onStack, indices, lowlinks, sccs]. *)
(***************************************************************************)
\* lines 329-339: pop the stack down to v.
RECURSIVE TarjanPop(_, _, _)
TarjanPop(st, v, scc) ==
    LET w == st.stack[Len(st.stack)]
        st1 == [st EXCEPT !.stack = SubSeq(st.stack, 1, Len(st.stack) - 1),
                          !.onStack = @ \ {w}]
        scc1 == Append(scc, w)
    IN  IF w = v THEN [st1 EXCEPT !.sccs = Append(@, scc1)]
        ELSE TarjanPop(st1, v, scc1)

RECURSIVE strongConnect(_, _, _)
RECURSIVE TarjanNeighbors(_, _, _, _, _)
\* The neighbor loop without lines 321-325: an edge back to a node on the
\* stack does not lower the lowlink.
RECURSIVE TarjanNeighborsNoBackEdge(_, _, _, _, _)
TarjanNeighborsNoBackEdge(st, neighbors, v, nbs, i) ==
    IF i > Len(nbs) THEN st
    ELSE LET w == nbs[i]
         IN  IF w \notin DOMAIN st.indices
             THEN LET st1 == strongConnect(st, neighbors, w)
                      st2 == IF st1.lowlinks[w] < st1.lowlinks[v]
                             THEN [st1 EXCEPT !.lowlinks[v] = st1.lowlinks[w]] ELSE st1
                  IN  TarjanNeighborsNoBackEdge(st2, neighbors, v, nbs, i + 1)
             ELSE TarjanNeighborsNoBackEdge(st, neighbors, v, nbs, i + 1)

\* lines 315-326
TarjanNeighbors(st, neighbors, v, nbs, i) ==
    IF i > Len(nbs) THEN st
    ELSE LET w == nbs[i]
         IN  IF w \notin DOMAIN st.indices
             THEN LET st1 == strongConnect(st, neighbors, w)
                      st2 == IF st1.lowlinks[w] < st1.lowlinks[v]
                             THEN [st1 EXCEPT !.lowlinks[v] = st1.lowlinks[w]] ELSE st1
                  IN  TarjanNeighbors(st2, neighbors, v, nbs, i + 1)
             ELSE IF w \in st.onStack /\ st.indices[w] < st.lowlinks[v]
             THEN TarjanNeighbors([st EXCEPT !.lowlinks[v] = st.indices[w]],
                                  neighbors, v, nbs, i + 1)
             ELSE TarjanNeighbors(st, neighbors, v, nbs, i + 1)

\* lines 308-341
strongConnect(st, neighbors, v) ==
    LET st0 == [st EXCEPT !.indices = MapSet(@, v, st.index),
                          !.lowlinks = MapSet(@, v, st.index),
                          !.index = @ + 1,
                          !.stack = Append(@, v),
                          !.onStack = @ \cup {v}]
        st1 == TarjanNeighbors(st0, neighbors, v, Lookup(neighbors, v), 1)
    IN  IF st1.lowlinks[v] = st1.indices[v] THEN TarjanPop(st1, v, <<>>) ELSE st1

\* lines 343-347
RECURSIVE TarjanRoots(_, _, _, _)
TarjanRoots(st, neighbors, i, numNodes) ==
    IF i >= numNodes THEN st
    ELSE IF i \notin DOMAIN st.indices
         THEN TarjanRoots(strongConnect(st, neighbors, i), neighbors, i + 1, numNodes)
         ELSE TarjanRoots(st, neighbors, i + 1, numNodes)

Tarjan(neighbors, numNodes) ==
    TarjanRoots([index |-> 0, stack |-> <<>>, onStack |-> {}, indices |-> EmptyMap,
                 lowlinks |-> EmptyMap, sccs |-> <<>>],
                neighbors, 0, numNodes).sccs

(***************************************************************************)
(* Kosaraju.  The transpose is filled by ranging over a Go map, whose      *)
(* iteration order is not fixed: Kosaraju is the set of the slices the     *)
(* call can return, one per order of the keys.                             *)
(***************************************************************************)
RECURSIVE dfs1(_, _, _)
RECURSIVE Dfs1Neighbors(_, _, _, _)
\* lines 361-365
Dfs1Neighbors(st, neighbors, nbs, i) ==
    IF i > Len(nbs) THEN st
    ELSE IF nbs[i] \notin st.visited
         THEN Dfs1Neighbors(dfs1(st, neighbors, nbs[i]), neighbors, nbs, i + 1)
         ELSE Dfs1Neighbors(st, neighbors, nbs, i + 1)

\* lines 359-367
dfs1(st, neighbors, v) ==
    LET st1 == Dfs1Neighbors([st EXCEPT !.visited = @ \cup {v}], neighbors,
                             Lookup(neighbors, v), 1)
    IN  [st1 EXCEPT !.stack = Append(@, v)]

\* lines 369-373
RECURSIVE Dfs1Roots(_, _, _, _)
Dfs1Roots(st, neighbors, i, numNodes) ==
    IF i >= numNodes THEN st
    ELSE IF i \notin st.visited
         THEN Dfs1Roots(dfs1(st, neighbors, i), neighbors, i + 1, numNodes)
         ELSE Dfs1Roots(st, neighbors, i + 1, numNodes)

\* The transpose loop with the two ends swapped: the edges are copied, not
\* turned round.
RECURSIVE TransposeEdgesForward(_, _, _, _)
TransposeEdgesForward(transpose, from, edges, i) ==
    IF i > Len(edges) THEN transpose
    ELSE TransposeEdgesForward(MapSet(transpose, from, Append(Lookup(transpose, from), edges[i])),
                               from, edges, i + 1)

\* lines 381-383: append `from` to the transposed list of each of its neighbors.
RECURSIVE TransposeEdges(_, _, _, _)
TransposeEdges(transpose, from, edges, i) ==
    IF i > Len(edges) THEN transpose
    ELSE TransposeEdges(MapSet(transpose, edges[i], Append(Lookup(transpose, edges[i]), from)),
                        from, edges, i + 1)

\* lines 376-384, the keys of neighbors being met in the order `keys`.
RECURSIVE TransposeLoop(_, _, _, _)
TransposeLoop(transpose, neighbors, keys, k) ==
    IF k > Len(keys) THEN transpose
    ELSE TransposeLoop(TransposeEdges(transpose, keys[k], neighbors[keys[k]], 1),
                       neighbors, keys, k + 1)

RECURSIVE dfs2(_, _, _)
RECURSIVE Dfs2Neighbors(_, _, _, _)
\* lines 394-398
Dfs2Neighbors(st, transpose, nbs, i) ==
    IF i > Len(nbs) THEN st
    ELSE IF nbs[i] \notin st.visited
         THEN Dfs2Neighbors(dfs2(st, transpose, nbs[i]), transpose, nbs, i + 1)
         ELSE Dfs2Neighbors(st, transpose, nbs, i + 1)

\* lines 391-400, on the state [visited, component]
dfs2(st, transpose, v) ==
    Dfs2Neighbors([visited |-> st.visited \cup {v}, component |-> Append(st.component, v)],
                  transpose, Lookup(transpose, v), 1)

\* lines 402-409
RECURSIVE KosarajuPop(_, _, _, _)
KosarajuPop(stack, visited, sccs, transpose) ==
    IF Len(stack) = 0 THEN sccs
    ELSE LET v == stack[Len(stack)]
             rest == SubSeq(stack, 1, Len(stack) - 1)
         IN  IF v \notin visited
             THEN LET r == dfs2([visited |-> visited, component |-> <<>>], transpose, v)
                  IN  KosarajuPop(rest, r.visited, Append(sccs, r.component), transpose)
             ELSE KosarajuPop(rest, visited, sccs, transpose)

\* The orders in which a range over a map with these keys can meet them.
KeyOrders(keys) ==
    { o \in [1..Cardinality(keys) -> keys] : \A i, j \in DOMAIN o : i # j => o[i] # o[j] }

Kosaraju(neighbors, numNodes) ==
    LET stack == Dfs1Roots([visited |-> {}, stack |-> <<>>], neighbors, 0, numNodes).stack
        transpose0 == [i \in 0..(numNodes - 1) |-> <<>>]
    IN  { KosarajuPop(stack, {}, <<>>, TransposeLoop(transpose0, neighbors, keys, 1)) :
            keys \in KeyOrders(DOMAIN neighbors) }


(***************************************************************************)
(* The session (simulator.Simulator).                                      *)
(***************************************************************************)
VARIABLES
    Graph,          \* s.Graph
    Order,          \* s.Order: the discovery order
    Queue,          \* s.Queue: the BFS frontier
    Stack,          \* s.Stack: the DFS frontier
    Visited,        \* s.Visited: the ids mapped to true
    Current,        \* s.Current
    LastActive,     \* s.LastActive
    Mode,           \* s.Mode
    Done,           \* s.Done
    avlTree,        \* s.avlTree: Nil or Some(tree)
    avlValue,       \* s.avlValue
    avlAction,      \* s.avlAction
    ShortestPaths,  \* s.ShortestPaths: Nil or Some(map)
    Predecessors,   \* s.Predecessors: Nil or Some(map)
    Path,           \* s.Path: Nil or Some(slice)
    MST,            \* s.MST: Nil or Some(slice)
    SCCs,           \* s.SCCs: Nil or Some(slice)
    TopOrder,       \* s.TopOrder: Nil or Some(slice)
    op,             \* the last call made on the session: [name, args, ret]
    avlKeys         \* history: the values inserted into the current tree and not deleted since

traversalVars == <<Order, Queue, Stack, Visited, Current, LastActive, Mode, Done>>
avlVars == <<avlTree, avlValue, avlAction, avlKeys>>
resultVars == <<ShortestPaths, Predecessors, Path, MST, SCCs, TopOrder>>
vars == <<Graph, Order, Queue, Stack, Visited, Current, LastActive, Mode, Done,
          avlTree, avlValue, avlAction, ShortestPaths, Predecessors, Path, MST,
          SCCs, TopOrder, op, avlKeys>>

\* A call of a method of the session, with what it returned (<<>> for none).
Call(name, args, ret) == [name |-> name, args |-> args, ret |-> ret]

\* NewSimulator, with the graph it is given.
NewSimulator(g) ==
    /\ Graph = g
    /\ Order = <<>>
    /\ Queue = <<>>
    /\ Stack = <<>>
    /\ Visited = {}
    /\ Current = -1
    /\ LastActive = -1
    /\ Mode = "Idle"
    /\ Done = FALSE
    /\ avlTree = Nil
    /\ avlValue = 0
    /\ avlAction = ""
    /\ ShortestPaths = Nil
    /\ Predecessors = Nil
    /\ Path = Nil
    /\ MST = Nil
    /\ SCCs = Nil
    /\ TopOrder = Nil
    /\ op = Call("NewSimulator", <<>>, <<>>)
    /\ avlKeys = {}

\* StartX honoured only from Idle: in any other mode the fields are kept.
StartCommonIfIdle(mode, queue, stack, current) ==
    IF Mode = "Idle"
    THEN /\ Mode' = mode
         /\ Queue' = queue
         /\ Stack' = stack
         /\ Order' = <<>>
         /\ Visited' = {}
         /\ Current' = current
         /\ LastActive' = -1
    ELSE UNCHANGED <<Mode, Queue, Stack, Order, Visited, Current, LastActive>>

\* The assignments every StartX makes before running its algorithm.
StartCommon(mode, queue, stack, current) ==
    /\ Mode' = mode
    /\ Queue' = queue
    /\ Stack' = stack
    /\ Order' = <<>>
    /\ Visited' = {}
    /\ Current' = current
    /\ LastActive' = -1

\* StartBFS without the s.Current = -1 of line 50.
StartBFSKeepsCurrent(start) ==
    /\ StartCommon("BFS", <<start>>, <<>>, Current)
    /\ Done' = FALSE
    /\ op' = Call("StartBFS", <<start>>, <<>>)
    /\ UNCHANGED <<Graph, avlVars, resultVars>>

StartBFS(start) ==
    /\ StartCommon("BFS", <<start>>, <<>>, -1)
    /\ Done' = FALSE
    /\ op' = Call("StartBFS", <<start>>, <<>>)
    /\ UNCHANGED <<Graph, avlVars, resultVars>>

StartDFS(start) ==
    /\ StartCommon("DFS", <<>>, <<start>>, -1)
    /\ Done' = FALSE
    /\ op' = Call("StartDFS", <<start>>, <<>>)
    /\ UNCHANGED <<Graph, avlVars, resultVars>>

\* The assignments of StartAVL, shared with InsertAVL's call of it.
StartAVLBody ==
    /\ StartCommon("AVL", <<>>, <<>>, -1)
    /\ Done' = FALSE
    /\ avlValue' = 0
    /\ avlAction' = "insert"

StartAVL ==
    /\ StartAVLBody
    /\ avlTree' = Some(NewAVLTree)
    /\ avlKeys' = {}
    /\ op' = Call("StartAVL", <<>>, <<>>)
    /\ UNCHANGED <<Graph, resultVars>>

StartDijkstra(source) ==
    LET r == Dijkstra(GetWeightedNeighbors(Graph), source, NumNodes(Graph))
    IN  /\ StartCommon("Dijkstra", <<>>, <<>>, source)
        /\ ShortestPaths' = Some(r.dist)
        /\ Predecessors' = Some(r.prev)
        /\ Done' = TRUE
        /\ op' = Call("StartDijkstra", <<source>>, <<>>)
        /\ UNCHANGED <<Graph, avlVars, Path, MST, SCCs, TopOrder>>

StartAStar(source, goal) ==
    LET r == AStar(GetWeightedNeighbors(Graph), source, goal, GetPositions(Graph))
    IN  /\ StartCommon("AStar", <<>>, <<>>, source)
        /\ Path' = r.path
        /\ Done' = TRUE
        /\ op' = Call("StartAStar", <<source, goal>>, <<>>)
        /\ UNCHANGED <<Graph, avlVars, ShortestPaths, Predecessors, MST, SCCs, TopOrder>>

StartTopological ==
    /\ StartCommon("Topological", <<>>, <<>>, -1)
    /\ TopOrder' = Some(TopologicalSort(GetUnweightedNeighbors(Graph), NumNodes(Graph)))
    /\ Done' = TRUE
    /\ op' = Call("StartTopological", <<>>, <<>>)
    /\ UNCHANGED <<Graph, avlVars, ShortestPaths, Predecessors, Path, MST, SCCs>>

\* Kruskal sorts s.Graph.WeightedEdges itself: the slice is passed, not a copy.
StartKruskal ==
    LET r == Kruskal(Graph.WeightedEdges, NumNodes(Graph))
    IN  /\ StartCommon("Kruskal", <<>>, <<>>, -1)
        /\ Graph' = [Graph EXCEPT !.WeightedEdges = r.edges]
        /\ MST' = Some(r.mst)
        /\ Done' = TRUE
        /\ op' = Call("StartKruskal", <<>>, <<>>)
        /\ UNCHANGED <<avlVars, ShortestPaths, Predecessors, Path, SCCs, TopOrder>>

StartPrim ==
    \E mst \in Prim(GetWeightedNeighbors(Graph), NumNodes(Graph)) :
        /\ StartCommon("Prim", <<>>, <<>>, -1)
        /\ MST' = Some(mst)
        /\ Done' = TRUE
        /\ op' = Call("StartPrim", <<>>, <<>>)
        /\ UNCHANGED <<Graph, avlVars, ShortestPaths, Predecessors, Path, SCCs, TopOrder>>

\* StartTarjan without the s.Done = true of line 189.
StartTarjanLeavesRunning ==
    /\ StartCommon("Tarjan", <<>>, <<>>, -1)
    /\ SCCs' = Some(Tarjan(GetUnweightedNeighbors(Graph), NumNodes(Graph)))
    /\ Done' = FALSE
    /\ op' = Call("StartTarjan", <<>>, <<>>)
    /\ UNCHANGED <<Graph, avlVars, ShortestPaths, Predecessors, Path, MST, TopOrder>>

StartTarjan ==
    /\ StartCommon("Tarjan", <<>>, <<>>, -1)
    /\ SCCs' = Some(Tarjan(GetUnweightedNeighbors(Graph), NumNodes(Graph)))
    /\ Done' = TRUE
    /\ op' = Call("StartTarjan", <<>>, <<>>)
    /\ UNCHANGED <<Graph, avlVars, ShortestPaths, Predecessors, Path, MST, TopOrder>>

StartKosaraju ==
    \E sccs \in Kosaraju(GetUnweightedNeighbors(Graph), NumNodes(Graph)) :
        /\ StartCommon("Kosaraju", <<>>, <<>>, -1)
        /\ SCCs' = Some(sccs)
        /\ Done' = TRUE
        /\ op' = Call("StartKosaraju", <<>>, <<>>)
        /\ UNCHANGED <<Graph, avlVars, ShortestPaths, Predecessors, Path, MST, TopOrder>>

\* Update, lines 222-237: the step of the current mode; nextNode and isDone
\* start as Go's zero values.
UpdateStep ==
    IF Mode = "BFS" THEN BFSStep(Queue, Visited, GetUnweightedNeighbors(Graph))
    ELSE IF Mode = "DFS" THEN DFSStep(Stack, Visited, GetUnweightedNeighbors(Graph))
    ELSE IF Mode = "AVL" THEN [frontier |-> <<>>, nextNode |-> 0, isDone |-> TRUE]
    ELSE [frontier |-> <<>>, nextNode |-> 0, isDone |-> FALSE]

\* Update returning early in Idle mode only, without the s.Done test.
UpdateReturnsEarlyIdleOnly == Mode = "Idle"

\* Update, line 212: the call returns at once.
UpdateReturnsEarly == Done \/ Mode = "Idle"

Update ==
    /\ op' = Call("Update", <<>>, <<"nil">>)
    /\ IF UpdateReturnsEarly THEN
           UNCHANGED <<Graph, traversalVars, avlVars, resultVars>>
       ELSE
           LET r == UpdateStep
           IN  /\ LastActive' = Current
               /\ Queue' = IF Mode = "BFS" THEN r.frontier ELSE Queue
               /\ Stack' = IF Mode = "DFS" THEN r.frontier ELSE Stack
               /\ Done' = r.isDone
               /\ IF r.nextNode # -1
                  THEN /\ Current' = r.nextNode
                       /\ Visited' = Visited \cup {r.nextNode}
                       /\ Order' = Append(Order, r.nextNode)
                  ELSE UNCHANGED <<Current, Visited, Order>>
               /\ UNCHANGED <<Graph, Mode, avlVars, resultVars>>

\* Reset without lines 262-268: the result payloads are kept.
ResetKeepsResults ==
    /\ Mode' = "Idle"
    /\ Queue' = <<>>
    /\ Stack' = <<>>
    /\ Order' = <<>>
    /\ Visited' = {}
    /\ Current' = -1
    /\ LastActive' = -1
    /\ Done' = FALSE
    /\ op' = Call("Reset", <<>>, <<>>)
    /\ UNCHANGED <<Graph, avlVars, resultVars>>

\* Reset dropping the AVL tree with the rest, as if it also set s.avlTree = nil.
ResetDropsTree ==
    /\ Mode' = "Idle"
    /\ Queue' = <<>>
    /\ Stack' = <<>>
    /\ Order' = <<>>
    /\ Visited' = {}
    /\ Current' = -1
    /\ LastActive' = -1
    /\ Done' = FALSE
    /\ ShortestPaths' = Nil
    /\ Predecessors' = Nil
    /\ Path' = Nil
    /\ MST' = Nil
    /\ SCCs' = Nil
    /\ TopOrder' = Nil
    /\ avlTree' = Nil
    /\ avlKeys' = {}
    /\ op' = Call("Reset", <<>>, <<>>)
    /\ UNCHANGED <<Graph, avlValue, avlAction>>

Reset ==
    /\ Mode' = "Idle"
    /\ Queue' = <<>>
    /\ Stack' = <<>>
    /\ Order' = <<>>
    /\ Visited' = {}
    /\ Current' = -1
    /\ LastActive' = -1
    /\ Done' = FALSE
    /\ ShortestPaths' = Nil
    /\ Predecessors' = Nil
    /\ Path' = Nil
    /\ MST' = Nil
    /\ SCCs' = Nil
    /\ TopOrder' = Nil
    /\ op' = Call("Reset", <<>>, <<>>)
    /\ UNCHANGED <<Graph, avlVars>>

\* UpdateAVL: lay the tree out on the screen.
UpdateAVL(t) == UpdatePositions(t, 400, 50, 60)

InsertAVL(value) ==
    /\ op' = Call("InsertAVL", <<value>>, <<>>)
    /\ IF IsNil(avlTree)
       THEN /\ StartAVLBody
            /\ avlTree' = Some(UpdateAVL(Insert(NewAVLTree, value)))
            /\ avlKeys' = {value}
       ELSE /\ avlTree' = Some(UpdateAVL(Insert(Deref(avlTree), value)))
            /\ avlKeys' = avlKeys \cup {value}
            /\ UNCHANGED <<traversalVars, avlValue, avlAction>>
    /\ UNCHANGED <<Graph, resultVars>>

DeleteAVL(value) ==
    /\ op' = Call("DeleteAVL", <<value>>, <<>>)
    /\ IF IsNil(avlTree)
       THEN UNCHANGED <<avlTree, avlKeys>>
       ELSE /\ avlTree' = Some(UpdateAVL(Delete(Deref(avlTree), value)))
            /\ avlKeys' = avlKeys \ {value}
    /\ UNCHANGED <<Graph, traversalVars, avlValue, avlAction, resultVars>>

\* SearchAVL returns a node handle (nil when absent) and changes nothing.
SearchAVLResult(value) == IF IsNil(avlTree) THEN nil ELSE Search(Deref(avlTree), value)

SearchAVL(value) ==
    /\ op' = Call("SearchAVL", <<value>>, <<SearchAVLResult(value)>>)
    /\ UNCHANGED <<Graph, traversalVars, avlVars, resultVars>>


(***************************************************************************)
(* Specification of the session: a simulator on a graph NewRandomGraph can *)
(* build, then any sequence of calls.  Node arguments are those the        *)
(* callers pass: a node of the graph, or 0 as source and the last node     *)
(* (-1 on the empty graph) as goal.                                        *)
(***************************************************************************)
SessionGraphs == UNION { NewRandomGraph(n, MaxWeight) : n \in 0..MaxNodes }

Sources == {0} \cup (0..(NumNodes(Graph) - 1))
Goals == {NumNodes(Graph) - 1} \cup (0..(NumNodes(Graph) - 1))

Init == \E g \in SessionGraphs : NewSimulator(g)

Next ==
    \/ \E start \in Sources : StartBFS(start)
    \/ \E start \in Sources : StartDFS(start)
    \/ StartAVL
    \/ \E source \in Sources : StartDijkstra(source)
    \/ \E source \in Sources, goal \in Goals : StartAStar(source, goal)
    \/ StartTopological
    \/ StartKruskal
    \/ StartPrim
    \/ StartTarjan
    \/ StartKosaraju
    \/ Update
    \/ Reset
    \/ \E v \in 1..MaxSimValue : InsertAVL(v)
    \/ \E v \in 1..MaxSimValue : DeleteAVL(v)
    \/ \E v \in 1..MaxSimValue : SearchAVL(v)

Spec == Init /\ [][Next]_vars

(***************************************************************************)
(* Specification of the traversal engine: a simulator on a graph read from *)
(* a file (any adjacency lists over its nodes, self-loops and one-way      *)
(* edges included, or the documented five-node example), stepped through   *)
(* BFS and DFS.                                                            *)
(***************************************************************************)
\* The duplicate-free sequences over S of length at most k.
RECURSIVE DistinctSeqs(_, _)
DistinctSeqs(S, k) ==
    IF k = 0 THEN {<<>>}
    ELSE LET prev == DistinctSeqs(S, k - 1)
         IN  prev \cup { Append(q, x) : <<q, x>> \in { <<q, x>> \in prev \X S : x \notin SeqRange(q) } }

\* The graph with the given adjacency lists (adj[i + 1] for node i).
LoadedGraph(adj) ==
    [Nodes |-> [i \in 1..Len(adj) |->
                   [X |-> 60 + ((i - 1) % 5) * 80, Y |-> 60 + ((i - 1) \div 5) * 80,
                    Neighbors |-> adj[i], Weights |-> <<>>]],
     Edges |-> <<>>,
     WeightedEdges |-> <<>>]

\* The graph of the documented example: A..E are 0..4, with adjacency
\* A:[B,C], B:[A,D], C:[A,D], D:[B,C,E], E:[D].
ExampleGraph == LoadedGraph(<< <<1, 2>>, <<0, 3>>, <<0, 3>>, <<1, 2, 4>>, <<3>> >>)

TraversalGraphs ==
    {ExampleGraph} \cup
    UNION { { LoadedGraph(adj) : adj \in [1..n -> DistinctSeqs(0..(n - 1), MaxDegree)] } :
              n \in 0..MaxTravNodes }

InitTraversal == \E g \in TraversalGraphs : NewSimulator(g)

NextTraversal ==
    \/ \E start \in Sources : StartBFS(start)
    \/ \E start \in Sources : StartDFS(start)
    \/ Update
    \/ Reset

SpecTraversal == InitTraversal /\ [][NextTraversal]_vars

(***************************************************************************)
(* Specifications of the batch algorithms as functions: each is called on  *)
(* the neighbor map, positions or edge list of a graph, and the call is    *)
(* recorded with what it returned.  The graphs are those read from a file  *)
(* with weights (directed, weights 0..MaxPathWeight, no self-loops, or the *)
(* documented path example), those read from a file without weights       *)
(* (directed, self-loops included), and those NewRandomGraph builds        *)
(* (undirected, weights 1..MaxSpanWeight, with their edge list).           *)
(***************************************************************************)
\* The adjacency lists a node i of an n-node graph can have: distinct
\* neighbors other than i, each with a weight.
WeightedLists(i, n) ==
    UNION { { [Neighbors |-> q, Weights |-> w] : w \in [1..Len(q) -> 0..MaxPathWeight] } :
              q \in DistinctSeqs((0..(n - 1)) \ {i}, MaxDegree) }

\* The adjacency of the first i nodes of an n-node graph.
RECURSIVE WeightedAdjs(_, _)
WeightedAdjs(n, i) ==
    IF i = 0 THEN {<<>>}
    ELSE { Append(a, x) : <<a, x>> \in WeightedAdjs(n, i - 1) \X WeightedLists(i - 1, n) }

\* The graph with the given neighbors and weights (adj[i + 1] for node i).
LoadedWeightedGraph(adj) ==
    [Nodes |-> [i \in 1..Len(adj) |->
                   [X |-> 60 + ((i - 1) % 5) * 80, Y |-> 60 + ((i - 1) \div 5) * 80,
                    Neighbors |-> adj[i].Neighbors, Weights |-> adj[i].Weights]],
     Edges |-> <<>>,
     WeightedEdges |-> <<>>]

\* The documented example: the path 0 -1- 1 -2- 2, each edge in both directions.
PathExample ==
    LoadedWeightedGraph(<< [Neighbors |-> <<1>>, Weights |-> <<1>>],
                           [Neighbors |-> <<0, 2>>, Weights |-> <<1, 2>>],
                           [Neighbors |-> <<1>>, Weights |-> <<2>>] >>)

PathGraphs ==
    {PathExample} \cup
    UNION { { LoadedWeightedGraph(adj) : adj \in WeightedAdjs(n, n) } : n \in 0..MaxPathNodes }

\* The documented example: the triangle (0,1,1), (1,2,2), (0,2,3).
TriangleExample == AddRandomEdge(AddRandomEdge(AddRandomEdge(GridGraph(3), 0, 1, 1), 1, 2, 2), 0, 2, 3)

SpanGraphs == UNION { NewRandomGraph(n, MaxSpanWeight) : n \in 0..MaxSpanNodes }

\* A call of Dijkstra, returning (dist, prev).
CallDijkstra(source) ==
    LET r == Dijkstra(GetWeightedNeighbors(Graph), source, NumNodes(Graph))
    IN  /\ op' = Call("Dijkstra", <<source>>, <<r.dist, r.prev>>)
        /\ UNCHANGED <<Graph, traversalVars, avlVars, resultVars>>

\* A call of AStar, returning (path, cost).
CallAStar(start, goal) ==
    LET r == AStar(GetWeightedNeighbors(Graph), start, goal, GetPositions(Graph))
    IN  /\ op' = Call("AStar", <<start, goal>>, <<r.path, r.cost>>)
        /\ UNCHANGED <<Graph, traversalVars, avlVars, resultVars>>

CallTopologicalSort ==
    /\ op' = Call("TopologicalSort", <<>>,
                  <<TopologicalSort(GetUnweightedNeighbors(Graph), NumNodes(Graph))>>)
    /\ UNCHANGED <<Graph, traversalVars, avlVars, resultVars>>

\* A call of Kruskal on the graph's edge list, which it sorts in place.
CallKruskal ==
    LET r == Kruskal(Graph.WeightedEdges, NumNodes(Graph))
    IN  /\ op' = Call("Kruskal", <<>>, <<r.mst>>)
        /\ Graph' = [Graph EXCEPT !.WeightedEdges = r.edges]
        /\ UNCHANGED <<traversalVars, avlVars, resultVars>>

CallPrim ==
    \E mst \in Prim(GetWeightedNeighbors(Graph), NumNodes(Graph)) :
        /\ op' = Call("Prim", <<>>, <<mst>>)
        /\ UNCHANGED <<Graph, traversalVars, avlVars, resultVars>>

CallTarjan ==
    /\ op' = Call("Tarjan", <<>>, <<Tarjan(GetUnweightedNeighbors(Graph), NumNodes(Graph))>>)
    /\ UNCHANGED <<Graph, traversalVars, avlVars, resultVars>>

CallKosaraju ==
    \E sccs \in Kosaraju(GetUnweightedNeighbors(Graph), NumNodes(Graph)) :
        /\ op' = Call("Kosaraju", <<>>, <<sccs>>)
        /\ UNCHANGED <<Graph, traversalVars, avlVars, resultVars>>

\* Dijkstra and AStar on the weighted directed graphs.
InitPaths == \E g \in PathGraphs : NewSimulator(g)

NextPaths ==
    \/ \E source \in Sources : CallDijkstra(source)
    \/ \E start \in Sources, goal \in Goals : CallAStar(start, goal)

SpecPaths == InitPaths /\ [][NextPaths]_vars

\* TopologicalSort, Tarjan and Kosaraju on the unweighted directed graphs.
NextOrdering ==
    \/ CallTopologicalSort
    \/ CallTarjan
    \/ CallKosaraju

SpecOrdering == InitTraversal /\ [][NextOrdering]_vars

\* Kruskal and Prim on the undirected graphs.
InitSpanning == \E g \in SpanGraphs : NewSimulator(g)

NextSpanning ==
    \/ CallKruskal
    \/ CallPrim

SpecSpanning == InitSpanning /\ [][NextSpanning]_vars

\* Every batch algorithm on the undirected graphs, the empty one among them.
NextBatch ==
    \/ \E source \in Sources : CallDijkstra(source)
    \/ \E start \in Sources, goal \in Goals : CallAStar(start, goal)
    \/ CallTopologicalSort
    \/ CallKruskal
    \/ CallPrim
    \/ CallTarjan
    \/ CallKosaraju

SpecBatch == InitSpanning /\ [][NextBatch]_vars

(***************************************************************************)
(* Specification of the AVL tree alone: a session in AVL mode holding an   *)
(* empty tree (the state StartAVL leaves), then any Insert/Delete/Search.  *)
(***************************************************************************)
InitAVL ==
    /\ Graph = GridGraph(0)
    /\ Order = <<>>
    /\ Queue = <<>>
    /\ Stack = <<>>
    /\ Visited = {}
    /\ Current = -1
    /\ LastActive = -1
    /\ Mode = "AVL"
    /\ Done = FALSE
    /\ avlTree = Some(NewAVLTree)
    /\ avlValue = 0
    /\ avlAction = "insert"
    /\ ShortestPaths = Nil
    /\ Predecessors = Nil
    /\ Path = Nil
    /\ MST = Nil
    /\ SCCs = Nil
    /\ TopOrder = Nil
    /\ op = Call("StartAVL", <<>>, <<>>)
    /\ avlKeys = {}

NextAVL ==
    \/ \E v \in 1..MaxValue : InsertAVL(v)
    \/ \E v \in 1..MaxValue : DeleteAVL(v)
    \/ \E v \in 1..MaxValue : SearchAVL(v)

SpecAVL == InitAVL /\ [][NextAVL]_vars

(***************************************************************************)
(* Properties of the session.                                              *)
(***************************************************************************)
StartNames ==
    {"StartBFS", "StartDFS", "StartAVL", "StartDijkstra", "StartAStar",
     "StartTopological", "StartKruskal", "StartPrim", "StartTarjan", "StartKosaraju"}

BatchStartNames ==
    {"StartDijkstra", "StartAStar", "StartTopological", "StartKruskal", "StartPrim",
     "StartTarjan", "StartKosaraju"}

\* The mode a StartX call selects: its name without "Start".
ModeOf(name) ==
    CASE name = "StartBFS" -> "BFS"
      [] name = "StartDFS" -> "DFS"
      [] name = "StartAVL" -> "AVL"
      [] name = "StartDijkstra" -> "Dijkstra"
      [] name = "StartAStar" -> "AStar"
      [] name = "StartTopological" -> "Topological"
      [] name = "StartKruskal" -> "Kruskal"
      [] name = "StartPrim" -> "Prim"
      [] name = "StartTarjan" -> "Tarjan"
      [] name = "StartKosaraju" -> "Kosaraju"

BatchModes == { ModeOf(name) : name \in BatchStartNames }

C2_BatchSynchronous ==
    [][ /\ (op'.name \in BatchStartNames /\ Mode = "Idle") =>
              /\ Mode' = ModeOf(op'.name)
              /\ Done'
              /\ CASE op'.name = "StartDijkstra" ->
                        LET r == Dijkstra(GetWeightedNeighbors(Graph), op'.args[1], NumNodes(Graph))
                        IN  ShortestPaths' = Some(r.dist) /\ Predecessors' = Some(r.prev)
                   [] op'.name = "StartAStar" ->
                        Path' = AStar(GetWeightedNeighbors(Graph), op'.args[1], op'.args[2],
                                      GetPositions(Graph)).path
                   [] op'.name = "StartTopological" ->
                        TopOrder' = Some(TopologicalSort(GetUnweightedNeighbors(Graph), NumNodes(Graph)))
                   [] op'.name = "StartKruskal" ->
                        MST' = Some(Kruskal(Graph.WeightedEdges, NumNodes(Graph)).mst)
                   [] op'.name = "StartPrim" ->
                        ~IsNil(MST') /\ Deref(MST') \in Prim(GetWeightedNeighbors(Graph), NumNodes(Graph))
                   [] op'.name = "StartTarjan" ->
                        SCCs' = Some(Tarjan(GetUnweightedNeighbors(Graph), NumNodes(Graph)))
                   [] op'.name = "StartKosaraju" ->
                        ~IsNil(SCCs') /\ Deref(SCCs') \in Kosaraju(GetUnweightedNeighbors(Graph), NumNodes(Graph))
        /\ (Mode' \in BatchModes) => Done'
        /\ (op'.name = "Update" /\ Mode \in BatchModes) => UNCHANGED <<resultVars, Mode, Done>>
      ]_vars

\* An Update made after StartDijkstra(0) on a graph with an edge: the
\* distances are stored, node 1 at a positive distance, and nothing was visited.
C2_Witness ==
    /\ op.name = "Update"
    /\ Mode = "Dijkstra"
    /\ Done
    /\ ~IsNil(ShortestPaths)
    /\ 1 \in DOMAIN Deref(ShortestPaths)
    /\ Deref(ShortestPaths)[1] \in 1..MaxWeight
    /\ IsNil(MST) /\ IsNil(SCCs) /\ IsNil(TopOrder) /\ IsNil(Path)
    /\ Order = <<>>

\* C3: an Update made when done is true, or in Idle mode, changes nothing
\* (graph, mode, frontier, visited set, discovery order, current and last
\* active node, done flag, tree, payloads) and returns a nil error.
C3_UpdateAfterDone ==
    [][ (op'.name = "Update" /\ (Done \/ Mode = "Idle")) =>
            /\ UNCHANGED <<Graph, traversalVars, avlVars, resultVars>>
            /\ op'.ret = <<"nil">>
      ]_vars

\* An Update made after StartPrim on a graph with an edge.
C3_Witness ==
    /\ op = Call("Update", <<>>, <<"nil">>)
    /\ Mode = "Prim"
    /\ Done
    /\ ~IsNil(MST)
    /\ Len(Deref(MST)) = 1
    /\ Order = <<>>
    /\ LastActive = -1

\* C4: Reset ends in Idle with empty queue, stack, visited set and discovery
\* order, no current or last active node, done false and every payload
\* cleared, whatever the state it is called in (so a second Reset assigns
\* the same values again), and leaves the graph and the tree alone.
C4_Reset ==
    [][ (op'.name = "Reset") =>
            /\ Mode' = "Idle" /\ Queue' = <<>> /\ Stack' = <<>> /\ Visited' = {}
            /\ Order' = <<>> /\ Current' = -1 /\ LastActive' = -1 /\ Done' = FALSE
            /\ IsNil(ShortestPaths') /\ IsNil(Predecessors') /\ IsNil(Path')
            /\ IsNil(MST') /\ IsNil(SCCs') /\ IsNil(TopOrder')
            /\ UNCHANGED <<Graph, avlVars>>
      ]_vars

\* A Reset of a session that holds a tree with a value in it.
C4_Witness ==
    /\ op.name = "Reset"
    /\ Mode = "Idle"
    /\ ~Done
    /\ ~IsNil(avlTree)
    /\ avlKeys # {}
    /\ IsNil(MST) /\ IsNil(SCCs)

(***************************************************************************)
(* Properties of the traversal engine.                                     *)
(***************************************************************************)
TraversalModes == {"BFS", "DFS"}

\* The frontier of the current traversal.
Frontier == IF Mode = "BFS" THEN Queue ELSE Stack

\* The frontier without the id the next step removes.
FrontierRest == IF Mode = "BFS" THEN Tail(Queue) ELSE SubSeq(Stack, 1, Len(Stack) - 1)

\* The id the next step removes.
FrontierNext == IF Mode = "BFS" THEN Head(Queue) ELSE Stack[Len(Stack)]

IsPrefix(s, t) == Len(s) <= Len(t) /\ SubSeq(t, 1, Len(s)) = s

\* C5: in BFS or DFS mode, not done, frontier not empty, an Update removes
\* exactly the front of the queue (BFS) or the top of the stack (DFS), what
\* it pushes goes behind the rest, and the discovery order grows by at most
\* one node; when the removed id is already visited nothing is pushed,
\* visited set, discovery order and current node are unchanged and done
\* stays false.
C5_StepRemovesOne ==
    [][ (op'.name = "Update" /\ Mode \in TraversalModes /\ ~Done /\ Frontier # <<>>) =>
            /\ Mode' = Mode
            /\ IsPrefix(FrontierRest, Frontier')
            /\ IsPrefix(Order, Order')
            /\ Len(Order') <= Len(Order) + 1
            /\ (FrontierNext \in Visited) =>
                  /\ Frontier' = FrontierRest
                  /\ UNCHANGED <<Visited, Order, Current>>
                  /\ Done' = FALSE
            /\ (FrontierNext \notin Visited) =>
                  /\ Order' = Append(Order, FrontierNext)
                  /\ Visited' = Visited \cup {FrontierNext}
                  /\ Done' = FALSE
      ]_vars

\* A skip step was made: an Update left the current node where the step
\* before had put it, in a traversal that is not done.
C5_Witness ==
    /\ op.name = "Update"
    /\ Mode \in TraversalModes
    /\ ~Done
    /\ Len(Order) >= 2
    /\ LastActive = Current
    /\ Frontier # <<>>

\* C6 as stated: in BFS or DFS mode the frontier is empty exactly when done.
C6_Original == (Mode \in TraversalModes) => (Done <=> Frontier = <<>>)

\* C6, amended: in BFS or DFS mode done is never true while the frontier is
\* not empty, and done becomes true only by a step that finds the frontier
\* already empty; the frontier is empty with done still false between the
\* step that removes the last id and that step.
C6_DoneOnlyOnEmptyFrontier ==
    [][ (Mode' \in TraversalModes /\ Done') =>
            /\ Frontier' = <<>>
            /\ (~Done) => (Mode = Mode' /\ Frontier = <<>> /\ op'.name = "Update")
      ]_vars

\* The state between the two steps: every id removed, three nodes visited,
\* done still false.
C6_Witness ==
    /\ op.name = "Update"
    /\ Mode \in TraversalModes
    /\ Frontier = <<>>
    /\ ~Done
    /\ Len(Order) = 3

\* C7: on the example graph a BFS started at A and stepped until done has
\* the discovery order A, B, C, D, E and a DFS started at A has A, C, D, E, B.
C7_ExampleOrders ==
    (Graph = ExampleGraph /\ Mode \in TraversalModes /\ Done /\ Order # <<>> /\ Order[1] = 0) =>
        Order = (IF Mode = "BFS" THEN <<0, 1, 2, 3, 4>> ELSE <<0, 2, 3, 4, 1>>)

\* The DFS of the example has finished.
C7_Witness ==
    /\ Graph = ExampleGraph
    /\ Mode = "DFS"
    /\ Done
    /\ Order = <<0, 2, 3, 4, 1>>

\* The nodes within k hops of src.
RECURSIVE Within(_, _, _)
Within(g, src, k) ==
    IF k = 0 THEN {src}
    ELSE LET p == Within(g, src, k - 1)
         IN  p \cup UNION { SeqRange(Lookup(GetUnweightedNeighbors(g), u)) : u \in p }

\* The number of hops of a shortest path from src to v (v within reach).
HopDistance(g, src, v) ==
    CHOOSE d \in 0..NumNodes(g) :
        /\ v \in Within(g, src, d)
        /\ \A e \in 0..(d - 1) : v \notin Within(g, src, e)

\* C8: the BFS discovery order is non-decreasing in hop distance from the
\* source, and when a node is appended every node nearer to the source is
\* already in the order before it.
C8_BFSLevelOrder ==
    (Mode = "BFS" /\ Order # <<>>) =>
        LET src == Order[1]
            d(v) == HopDistance(Graph, src, v)
        IN  \A j \in 1..Len(Order) :
               /\ \A i \in 1..(j - 1) : d(Order[i]) <= d(Order[j])
               /\ \A v \in Within(Graph, src, NumNodes(Graph)) :
                     d(v) < d(Order[j]) => \E i \in 1..(j - 1) : Order[i] = v

\* A finished BFS that reached a node two hops from the source after a node
\* one hop from it.
C8_Witness ==
    /\ Mode = "BFS"
    /\ Done
    /\ Len(Order) = 3
    /\ HopDistance(Graph, Order[1], Order[2]) = 1
    /\ HopDistance(Graph, Order[1], Order[3]) = 2

(***************************************************************************)
(* Properties of the AVL tree.                                             *)
(***************************************************************************)
\* The tree of the session (an empty one when there is none).
Tree == IF IsNil(avlTree) THEN NewAVLTree ELSE Deref(avlTree)

\* The height of the subtree actually hanging under a handle.
RECURSIVE TrueHeight(_, _)
TrueHeight(h, n) ==
    IF n = nil THEN 0
    ELSE 1 + max(TrueHeight(h, h[n].Left), TrueHeight(h, h[n].Right))

\* The handles reachable from a handle through Left and Right.
RECURSIVE Reachable(_, _)
Reachable(h, n) ==
    IF n = nil THEN {}
    ELSE {n} \cup Reachable(h, h[n].Left) \cup Reachable(h, h[n].Right)

RECURSIVE InOrder(_, _)
InOrder(h, n) ==
    IF n = nil THEN <<>>
    ELSE InOrder(h, h[n].Left) \o <<h[n].Value>> \o InOrder(h, h[n].Right)

StrictlyIncreasing(s) == \A i \in 1..(Len(s) - 1) : s[i] < s[i + 1]

Abs(x) == IF x < 0 THEN -x ELSE x

\* C9: after every Insert and Delete, every node's cached Height is
\* 1 + max of the true heights of its subtrees, and the true heights of its
\* two subtrees differ by at most 1.
C9_HeightsAndBalance ==
    \A n \in Reachable(Tree.h, Tree.Root) :
        /\ Tree.h[n].Height =
               1 + max(TrueHeight(Tree.h, Tree.h[n].Left), TrueHeight(Tree.h, Tree.h[n].Right))
        /\ Abs(TrueHeight(Tree.h, Tree.h[n].Left) - TrueHeight(Tree.h, Tree.h[n].Right)) <= 1

\* A Delete that had to rotate: deleting 1 from the tree 2(1, 3(-, 4)) lifts 3 to the root.
C9_Witness ==
    /\ op = Call("DeleteAVL", <<1>>, <<>>)
    /\ avlKeys = {2, 3, 4}
    /\ Tree.h[Tree.Root].Value = 3
    /\ Tree.h[Tree.Root].Height = 2

\* C10: the in-order traversal is strictly increasing and holds exactly the
\* values inserted and not deleted since; Search(v) returns a node holding v
\* when v is among them and nil otherwise.
C10_OrderedSetAndSearch ==
    /\ StrictlyIncreasing(InOrder(Tree.h, Tree.Root))
    /\ SeqRange(InOrder(Tree.h, Tree.Root)) = avlKeys
    /\ \A v \in 0..(MaxValue + 1) :
          LET n == Search(Tree, v)
          IN  IF v \in avlKeys THEN n # nil /\ Tree.h[n].Value = v ELSE n = nil

\* A Delete of a node with two children: the only tree holding {1, 2, 3} has 2
\* at its root, and deleting 2 copies its successor 3 into the root.
C10_Witness ==
    /\ op = Call("DeleteAVL", <<2>>, <<>>)
    /\ avlKeys = {1, 3}
    /\ Tree.h[Tree.Root].Value = 3
    /\ Tree.h[Tree.Root].Left # nil
    /\ Tree.h[Tree.h[Tree.Root].Left].Value = 1
    /\ Search(Tree, 2) = nil

\* The values held by the tree of the session.
TreeValues == SeqRange(InOrder(Tree.h, Tree.Root))

\* C11: an InsertAVL of a value the tree holds and a DeleteAVL of a value it
\* does not hold leave the tree as it was: same nodes, values, links, cached
\* heights, parent links and positions.
C11_NoOpOnDuplicateOrAbsent ==
    [][ (\/ (op'.name = "InsertAVL" /\ ~IsNil(avlTree) /\ op'.args[1] \in TreeValues)
         \/ (op'.name = "DeleteAVL" /\ op'.args[1] \notin TreeValues)) =>
            avlTree' = avlTree
      ]_vars

\* An InsertAVL(2) of a value already held: 2 is the root over {1, 2, 3, 4},
\* and a 2 inserted last into the tree 3(1, 4) would sit under 1.
C11_Witness ==
    /\ op = Call("InsertAVL", <<2>>, <<>>)
    /\ avlKeys = {1, 2, 3, 4}
    /\ Tree.h[Tree.Root].Value = 2

(***************************************************************************)
(* Properties of the shortest-path functions.                              *)
(***************************************************************************)
\* The edges of a neighbor map.
AllEdges(neighbors) == UNION { SeqRange(neighbors[u]) : u \in DOMAIN neighbors }

\* The least element of a non-empty set of numbers.
MinOf(S) == CHOOSE x \in S : \A y \in S : x <= y

\* The least total weight of a path from src to each node with at most k
\* edges, Inf where there is none.
RECURSIVE MinDist(_, _, _)
MinDist(neighbors, src, k) ==
    IF k = 0 THEN [v \in DOMAIN neighbors |-> IF v = src THEN 0 ELSE Inf]
    ELSE LET p == MinDist(neighbors, src, k - 1)
         IN  [v \in DOMAIN neighbors |->
                 MinOf({p[v]} \cup { p[e.From] + e.Weight :
                                       e \in { e \in AllEdges(neighbors) : e.To = v /\ p[e.From] < Inf } })]

\* The true distances from src: a shortest path has fewer edges than nodes.
TrueDist(neighbors, src) == MinDist(neighbors, src, Cardinality(DOMAIN neighbors))

NodeIds == 0..(NumNodes(Graph) - 1)

\* C12: called with a source in [0, n), Dijkstra returns for every node of
\* [0, n) the least total weight of a path from the source (0 for the
\* source), +Inf for a node out of reach; on the path example from 0 it
\* returns {0:0, 1:1, 2:3}.
C12_DijkstraDistances ==
    (op.name = "Dijkstra" /\ op.args[1] \in NodeIds) =>
        /\ op.ret[1] = TrueDist(GetWeightedNeighbors(Graph), op.args[1])
        /\ (Graph = PathExample /\ op.args[1] = 0) => op.ret[1] = (0 :> 0 @@ 1 :> 1 @@ 2 :> 3)

\* Dijkstra from 0 where the direct edge 0 -> 2 weighs more than the way by 1.
C12_Witness ==
    /\ op.name = "Dijkstra"
    /\ op.args = <<0>>
    /\ NumNodes(Graph) = 3
    /\ GetWeightedNeighbors(Graph)[0] = <<Edge(0, 2, 1), Edge(0, 1, 0)>>
    /\ GetWeightedNeighbors(Graph)[1] = <<Edge(1, 2, 0)>>
    /\ op.ret[1] = (0 :> 0 @@ 1 :> 0 @@ 2 :> 0)

\* The walk from v back along prev: v, prev[v], prev[prev[v]], ... up to the
\* first node whose predecessor is -1, cut after k steps.
RECURSIVE PrevWalk(_, _, _)
PrevWalk(prev, v, k) ==
    IF prev[v] = -1 \/ k = 0 THEN <<v>>
    ELSE <<v>> \o PrevWalk(prev, prev[v], k - 1)

\* The weights of the edges u -> v of a neighbor map.
EdgeWeights(neighbors, u, v) ==
    { e.Weight : e \in { e \in AllEdges(neighbors) : e.From = u /\ e.To = v } }

\* The sums of weights the walk w (read backward) can have along edges of the map.
RECURSIVE WalkWeights(_, _, _)
WalkWeights(neighbors, w, i) ==
    IF i >= Len(w) THEN {0}
    ELSE { x + y : <<x, y>> \in EdgeWeights(neighbors, w[i + 1], w[i]) \X WalkWeights(neighbors, w, i + 1) }

\* C13: in Dijkstra's result, the walk back along prev from a node within
\* reach ends at the source, repeats no node, follows edges of the graph
\* whose weights sum to the node's distance; the source and every node out
\* of reach have predecessor -1.
C13_PredecessorWalk ==
    (op.name = "Dijkstra" /\ op.args[1] \in NodeIds) =>
        LET nb == GetWeightedNeighbors(Graph)
            src == op.args[1]
            dist == op.ret[1]
            prev == op.ret[2]
        IN  /\ DOMAIN prev = NodeIds
            /\ prev[src] = -1
            /\ \A v \in NodeIds :
                  IF dist[v] >= Inf THEN prev[v] = -1
                  ELSE LET w == PrevWalk(prev, v, NumNodes(Graph))
                       IN  /\ w[Len(w)] = src
                           /\ Cardinality(SeqRange(w)) = Len(w)
                           /\ dist[v] \in WalkWeights(nb, w, 1)

\* Dijkstra on the path example from 0: the walk back from 2 is 2, 1, 0.
C13_Witness ==
    /\ op.name = "Dijkstra"
    /\ op.args = <<0>>
    /\ Graph = PathExample
    /\ PrevWalk(op.ret[2], 2, 3) = <<2, 1, 0>>
    /\ op.ret[2] = (0 :> -1 @@ 1 :> 0 @@ 2 :> 1)

\* C14 as stated: called with a start and a goal in [0, n), AStar returns
\* the true distance from start to goal, and an empty path with +Inf when
\* the goal is out of reach.
C14_AStarOptimal ==
    (op.name = "AStar" /\ op.args[1] \in NodeIds /\ op.args[2] \in NodeIds) =>
        LET d == TrueDist(GetWeightedNeighbors(Graph), op.args[1])[op.args[2]]
        IN  /\ op.ret[2] = d
            /\ (d >= Inf) => (IsNil(op.ret[1]) \/ op.ret[1] = Some(<<>>))

(***************************************************************************)
(* Properties of TopologicalSort, Tarjan and Kosaraju.                     *)
(***************************************************************************)
\* The nodes a node has an edge to.
Successors(g, u) == SeqRange(Lookup(GetUnweightedNeighbors(g), u))

\* The nodes reached from u by a path of at least one edge.
ReachPlus(g, u) == UNION { Within(g, w, NumNodes(g)) : w \in Successors(g, u) }

Acyclic(g) == \A u \in 0..(NumNodes(g) - 1) : u \notin ReachPlus(g, u)

\* The index of v in a sequence that holds it.
IndexOf(s, v) == CHOOSE i \in 1..Len(s) : s[i] = v

\* C15: TopologicalSort returns every node of [0, n) exactly once, on cyclic
\* graphs too, and on an acyclic graph u comes before v for every edge u -> v.
C15_TopologicalOrder ==
    (op.name = "TopologicalSort") =>
        LET order == op.ret[1]
        IN  /\ Len(order) = NumNodes(Graph)
            /\ SeqRange(order) = NodeIds
            /\ Acyclic(Graph) =>
                  \A u \in NodeIds : \A v \in Successors(Graph, u) :
                      IndexOf(order, u) < IndexOf(order, v)

\* The order of the acyclic graph 0 -> 2 -> 1.
C15_Witness ==
    /\ op.name = "TopologicalSort"
    /\ Acyclic(Graph)
    /\ GetUnweightedNeighbors(Graph) = (0 :> <<2>> @@ 1 :> <<>> @@ 2 :> <<1>>)
    /\ op.ret[1] = <<0, 2, 1>>

\* The node sets of a list of components.
ComponentSets(sccs) == { SeqRange(sccs[i]) : i \in 1..Len(sccs) }

\* C18: the node sets of the components Kosaraju returns are those of the
\* components Tarjan returns on the same graph.
C18_TarjanEqualsKosaraju ==
    (op.name = "Kosaraju") =>
        ComponentSets(op.ret[1]) =
            ComponentSets(Tarjan(GetUnweightedNeighbors(Graph), NumNodes(Graph)))

\* Kosaraju on a graph with a cycle 0 <-> 1 and an edge into 2, returning the
\* same sets as Tarjan in another order.
C18_Witness ==
    /\ op.name = "Kosaraju"
    /\ ComponentSets(op.ret[1]) = {{0, 1}, {2}}
    /\ op.ret[1] # Tarjan(GetUnweightedNeighbors(Graph), NumNodes(Graph))

\* The sum of the lengths of the components.
RECURSIVE TotalLen(_, _)
TotalLen(sccs, i) == IF i > Len(sccs) THEN 0 ELSE Len(sccs[i]) + TotalLen(sccs, i + 1)

\* C19: Tarjan's components hold every node of [0, n) exactly once, and two
\* nodes are in the same component exactly when each is reachable from the
\* other.
C19_TarjanPartition ==
    (op.name = "Tarjan") =>
        LET sccs == op.ret[1]
            n == NumNodes(Graph)
        IN  /\ UNION ComponentSets(sccs) = NodeIds
            /\ TotalLen(sccs, 1) = n
            /\ \A u, v \in NodeIds :
                  (\E c \in ComponentSets(sccs) : u \in c /\ v \in c) <=>
                      (v \in Within(Graph, u, n) /\ u \in Within(Graph, v, n))

\* Tarjan on a three-node cycle met out of id order: one component.
C19_Witness ==
    /\ op.name = "Tarjan"
    /\ GetUnweightedNeighbors(Graph) = (0 :> <<2>> @@ 1 :> <<0>> @@ 2 :> <<1>>)
    /\ op.ret[1] = << <<1, 2, 0>> >>

(***************************************************************************)
(* Properties of Kruskal and Prim.                                         *)
(***************************************************************************)
\* The nodes joined to u by edges of E taken in either direction, in at most k steps.
RECURSIVE Joined(_, _, _)
Joined(E, u, k) ==
    IF k = 0 THEN {u}
    ELSE LET p == Joined(E, u, k - 1)
         IN  p \cup { e.To : e \in { e \in E : e.From \in p } }
               \cup { e.From : e \in { e \in E : e.To \in p } }

\* The number of connected components of the n nodes under the edges E.
NumComponents(n, E) == Cardinality({ Joined(E, u, n) : u \in 0..(n - 1) })

\* The total weight of a set of edges.
RECURSIVE SetWeight(_)
SetWeight(E) ==
    IF E = {} THEN 0
    ELSE LET e == CHOOSE e \in E : TRUE
         IN  e.Weight + SetWeight(E \ {e})

\* The spanning forests of the n nodes under E: the cycle-free subsets that
\* join what E joins.
SpanningForests(n, E) ==
    { F \in SUBSET E :
        /\ NumComponents(n, F) = NumComponents(n, E)
        /\ Cardinality(F) = n - NumComponents(n, E) }

\* C16: Kruskal returns distinct edges of its input, cycle-free, n - c of
\* them for c connected components, of the least total weight a spanning
\* forest can have; on the triangle (0,1,1), (1,2,2), (0,2,3) it returns
\* (0,1) and (1,2) and not (0,2).
C16_KruskalMinimumForest ==
    (op.name = "Kruskal") =>
        LET mst == op.ret[1]
            n == NumNodes(Graph)
            E == SeqRange(Graph.WeightedEdges)
            F == SeqRange(mst)
        IN  /\ F \subseteq E
            /\ Cardinality(F) = Len(mst)
            /\ F \in SpanningForests(n, E)
            /\ \A G \in SpanningForests(n, E) : SetWeight(F) <= SetWeight(G)
            /\ (n = 3 /\ E = SeqRange(TriangleExample.WeightedEdges)) =>
                  mst = <<Edge(0, 1, 1), Edge(1, 2, 2)>>

\* Kruskal on the triangle given heaviest edge first.
C16_Witness ==
    /\ op.name = "Kruskal"
    /\ Graph.Edges = << <<0, 2>>, <<1, 2>>, <<0, 1>> >>
    /\ Graph.WeightedEdges = <<Edge(0, 1, 1), Edge(1, 2, 2), Edge(0, 2, 3)>>
    /\ op.ret[1] = <<Edge(0, 1, 1), Edge(1, 2, 2)>>

\* C17: on a connected undirected graph of n >= 1 nodes, Prim returns n - 1
\* edges, each an edge of the neighbor map, that join all the nodes, of the
\* same total weight as Kruskal's result on the graph's edge list.
C17_PrimMatchesKruskal ==
    (op.name = "Prim" /\ NumNodes(Graph) >= 1
       /\ NumComponents(NumNodes(Graph), SeqRange(Graph.WeightedEdges)) = 1) =>
        LET mst == op.ret[1]
            n == NumNodes(Graph)
            F == SeqRange(mst)
        IN  /\ Len(mst) = n - 1
            /\ F \subseteq AllEdges(GetWeightedNeighbors(Graph))
            /\ NumComponents(n, F) = 1
            /\ SetWeight(F) = SetWeight(SeqRange(Kruskal(Graph.WeightedEdges, n).mst))

\* Prim on a triangle with a repeated weight, where the light edges do not
\* touch node 0's heavy edge to 1.
C17_Witness ==
    /\ op.name = "Prim"
    /\ NumNodes(Graph) = 3
    /\ SeqRange(Graph.WeightedEdges) = {Edge(0, 1, 3), Edge(0, 2, 1), Edge(1, 2, 1)}
    /\ SeqRange(op.ret[1]) = {Edge(0, 2, 1), Edge(2, 1, 1)}

(***************************************************************************)
(* The batch algorithms on the graph with no node.                         *)
(***************************************************************************)
\* C20 as stated: on a graph with no node every batch algorithm returns an
\* empty result: empty distance and predecessor maps, empty path, empty
\* order, empty edge list, empty component list.
C20_EmptyGraphResults ==
    (NumNodes(Graph) = 0) =>
        CASE op.name = "Dijkstra" -> DOMAIN op.ret[1] = {} /\ DOMAIN op.ret[2] = {}
          [] op.name = "AStar" -> IsNil(op.ret[1]) \/ op.ret[1] = Some(<<>>)
          [] op.name \in {"TopologicalSort", "Kruskal", "Prim", "Tarjan", "Kosaraju"} ->
                 op.ret[1] = <<>>
          [] OTHER -> TRUE

(***************************************************************************)
(* Node ids outside the graph.                                             *)
(***************************************************************************)
\* The ids a call was given that are not nodes of the graph.
InvalidIds(name, args, g) ==
    IF name \in {"StartBFS", "StartDFS", "StartDijkstra", "StartAStar"}
    THEN {args[i] : i \in 1..Len(args)} \ (0..(NumNodes(g) - 1))
    ELSE {}

\* C21 as stated: StartBFS, StartDFS, StartDijkstra or StartAStar called with
\* an id outside [0, n) reports InvalidNode and starts nothing: the session
\* is left as it was.
C21_InvalidNodeRejected ==
    [][ InvalidIds(op'.name, op'.args, Graph) # {} =>
            /\ op'.ret = <<"InvalidNode">>
            /\ UNCHANGED <<Graph, traversalVars, avlVars, resultVars>> ]_vars

(***************************************************************************)
(* Specification of the algorithm runs: a simulator on a graph             *)
(* NewRandomGraph can build (those of the session specification, the       *)
(* documented triangle and a three-node graph with its heavier edge        *)
(* first), then any sequence of traversal and batch runs.                  *)
(***************************************************************************)
NextRuns ==
    \/ \E start \in Sources : StartBFS(start)
    \/ \E start \in Sources : StartDFS(start)
    \/ \E source \in Sources : StartDijkstra(source)
    \/ \E source \in Sources, goal \in Goals : StartAStar(source, goal)
    \/ StartTopological
    \/ StartKruskal
    \/ StartPrim
    \/ StartTarjan
    \/ StartKosaraju
    \/ Update
    \/ Reset

\* A graph NewRandomGraph(3) can build whose edge list is not in weight order.
UnsortedExample == AddRandomEdge(AddRandomEdge(GridGraph(3), 0, 1, 2), 1, 2, 1)

RunGraphs == SessionGraphs \cup {TriangleExample, UnsortedExample}

InitRuns == \E g \in RunGraphs : NewSimulator(g)

SpecRuns == InitRuns /\ [][NextRuns]_vars

\* C22 as stated: no run changes the session's graph: node list, neighbor and
\* weight lists, edge list and weighted edge list stay as they were, element
\* order included.
C22_GraphNeverMutated == [][Graph' = Graph]_vars

(***************************************************************************)
(* What a visiting step pushes.                                            *)
(***************************************************************************)
\* C23 as stated: an Update in BFS or DFS mode that removes an unvisited id n
\* marks n visited, appends it to the discovery order, and pushes exactly
\* the neighbors of n, in adjacency-list order, that are not visited once n
\* is marked: n itself is never pushed, ids waiting in the frontier may be.
C23_PushesNeighborsUnvisitedAfterMark ==
    [][ (/\ op'.name = "Update" /\ Mode \in TraversalModes /\ ~Done
         /\ Frontier # <<>> /\ FrontierNext \notin Visited) =>
            LET n == FrontierNext
            IN  /\ Visited' = Visited \cup {n}
                /\ Order' = Append(Order, n)
                /\ Frontier' = FrontierRest \o
                       Unvisited(Visited \cup {n}, Lookup(GetUnweightedNeighbors(Graph), n))
      ]_vars

(***************************************************************************)
(* Update outside a traversal.                                             *)
(***************************************************************************)
\* C24 as stated: an Update in a mode other than BFS and DFS (AVL mode in
\* particular) leaves the visited set and the discovery order empty and the
\* current node as it was: no graph node is reported as visited.
C24_StepOnlyInTraversalModes ==
    [][ (op'.name = "Update" /\ Mode \notin TraversalModes) =>
            /\ Visited' = {}
            /\ Order' = <<>>
            /\ Current' = Current
      ]_vars

(***************************************************************************)
(* Parent links of the AVL tree.                                           *)
(***************************************************************************)
\* C25: after every Insert and Delete the root's Parent is nil, the Parent of
\* every child is the node it hangs under, and no node of the tree has a
\* Parent that was removed from it.
C25_ParentLinks ==
    LET h == Tree.h
        nodes == Reachable(h, Tree.Root)
    IN  /\ Tree.Root # nil => h[Tree.Root].Parent = nil
        /\ \A p \in nodes :
              /\ h[p].Left # nil => h[h[p].Left].Parent = p
              /\ h[p].Right # nil => h[h[p].Right].Parent = p
              /\ h[p].Parent \in nodes \cup {nil}

\* A Delete whose rotation reattaches a subtree: in the tree 4(2(1, 3), 5)
\* deleting 5 rotates 4 to the right, 2 becomes the root and 3, which hung
\* under 2, hangs under 4.
C25_Witness ==
    /\ op = Call("DeleteAVL", <<5>>, <<>>)
    /\ avlKeys = {1, 2, 3, 4}
    /\ Tree.h[Tree.Root].Value = 2
    /\ Tree.h[Tree.Root].Right # nil
    /\ Tree.h[Tree.h[Tree.Root].Right].Value = 4
    /\ Tree.h[Tree.h[Tree.Root].Right].Left # nil
    /\ Tree.h[Tree.h[Tree.h[Tree.Root].Right].Left].Value = 3

(***************************************************************************)
(* The path AStar returns.                                                 *)
(***************************************************************************)
Reverse(s) == [i \in 1..Len(s) |-> s[Len(s) + 1 - i]]

\* C26: a non-empty path returned by AStar starts at start, ends at goal,
\* repeats no node, follows edges of the weighted adjacency, and the weights
\* of those edges sum to the returned cost.
C26_AStarPathWellFormed ==
    (op.name = "AStar" /\ ~IsNil(op.ret[1]) /\ Deref(op.ret[1]) # <<>>) =>
        LET nb == GetWeightedNeighbors(Graph)
            path == Deref(op.ret[1])
        IN  /\ path[1] = op.args[1]
            /\ path[Len(path)] = op.args[2]
            /\ Cardinality(SeqRange(path)) = Len(path)
            /\ \A i \in 1..(Len(path) - 1) : EdgeWeights(nb, path[i], path[i + 1]) # {}
            /\ op.ret[2] \in WalkWeights(nb, Reverse(path), 1)

\* AStar on the path example from 0 to 2: the path 0, 1, 2 of cost 1 + 2.
C26_Witness ==
    /\ op.name = "AStar"
    /\ op.args = <<0, 2>>
    /\ Graph = PathExample
    /\ op.ret = <<Some(<<0, 1, 2>>), 3>>

(***************************************************************************)
(* Specification of the graph editor: a simulator on a graph               *)
(* NewRandomGraph can build, then any sequence of the editor's operations  *)
(* on the session's graph, with the arguments its menus and clicks pass    *)
(* (nodes of the graph, two different ends for an edge, no removal of the  *)
(* last node, no node beyond the maximum).                                 *)
(***************************************************************************)
\* A call of the editor: the session's graph is replaced, nothing else moves.
Edit(name, args, g) ==
    /\ Graph' = g
    /\ op' = Call(name, args, <<>>)
    /\ UNCHANGED <<traversalVars, avlVars, resultVars>>

AddNode(x, y) ==
    /\ NumNodes(Graph) < MaxEditNodes
    /\ Edit("addNode", <<x, y>>, addNode(Graph, x, y))

RemoveNode(index) ==
    /\ NumNodes(Graph) > 1
    /\ Edit("removeNode", <<index>>, removeNode(Graph, index))

AddEdge(a, b) ==
    /\ a # b
    /\ Edit("addEdge", <<a, b>>, addEdge(Graph, a, b))

RemoveEdge(a, b) ==
    /\ a # b
    /\ Edit("removeEdge", <<a, b>>, removeEdge(Graph, a, b))

ClearNodeEdges(nodeIndex) == Edit("clearNodeEdges", <<nodeIndex>>, clearNodeEdges(Graph, nodeIndex))

NextEdit ==
    \/ AddNode(100, 100)
    \/ \E index \in NodeIds : RemoveNode(index)
    \/ \E a \in NodeIds, b \in NodeIds : AddEdge(a, b)
    \/ \E a \in NodeIds, b \in NodeIds : RemoveEdge(a, b)
    \/ \E nodeIndex \in NodeIds : ClearNodeEdges(nodeIndex)

SpecEdit == Init /\ [][NextEdit]_vars

(***************************************************************************)
(* Properties of the graph under editing.                                  *)
(***************************************************************************)
\* C27 as stated: in every graph reached from NewRandomGraph(n) by addNode,
\* removeNode, addEdge, removeEdge and clearNodeEdges every entry of every
\* neighbor list, of Edges and of WeightedEdges is a node id in [0, n), and
\* every node has as many weights as neighbors.
C27_EdgeEndpointsValid ==
    /\ \A i \in 1..NumNodes(Graph) :
          /\ SeqRange(Graph.Nodes[i].Neighbors) \subseteq NodeIds
          /\ Len(Graph.Nodes[i].Weights) = Len(Graph.Nodes[i].Neighbors)
    /\ \A i \in 1..Len(Graph.Edges) :
          Graph.Edges[i][1] \in NodeIds /\ Graph.Edges[i][2] \in NodeIds
    /\ \A i \in 1..Len(Graph.WeightedEdges) :
          Graph.WeightedEdges[i].From \in NodeIds /\ Graph.WeightedEdges[i].To \in NodeIds

(***************************************************************************)
(* Specification of a traversal stepped to its end: a simulator on a graph *)
(* read from a file; a traversal is started from Idle (the B and D keys    *)
(* start one only in Idle mode), stepped by Update, and reset once it is   *)
(* done.  The game loop keeps calling Update, so Update is taken whenever  *)
(* it stays enabled.                                                       *)
(***************************************************************************)
StartBFSFromIdle(start) == Mode = "Idle" /\ StartBFS(start)

StartDFSFromIdle(start) == Mode = "Idle" /\ StartDFS(start)

ResetWhenDone == Done /\ Reset

NextStepping ==
    \/ \E start \in Sources : StartBFSFromIdle(start)
    \/ \E start \in Sources : StartDFSFromIdle(start)
    \/ Update
    \/ ResetWhenDone

SpecStepping == InitTraversal /\ [][NextStepping]_vars /\ WF_vars(Update)

\* C28: a BFS or DFS traversal that keeps being stepped reaches done after
\* finitely many Updates; its first visit is the source it was started
\* with, and when it is done the discovery order holds exactly the nodes
\* within reach of the source.
C28_TraversalTerminates ==
    /\ (Mode \in TraversalModes) ~> (Mode \in TraversalModes /\ Done)
    /\ [][ (op.name \in {"StartBFS", "StartDFS"} /\ op'.name = "Update") =>
               Order' = <<op.args[1]>> ]_vars
    /\ [](( Mode \in TraversalModes /\ Done) =>
            /\ Order # <<>>
            /\ SeqRange(Order) = Within(Graph, Order[1], NumNodes(Graph)))

\* A finished traversal of a three-node graph that left a node out of reach
\* of the source aside.
C28_Witness ==
    /\ Mode \in TraversalModes
    /\ Done
    /\ NumNodes(Graph) = 3
    /\ Len(Order) = 2
    /\ op.name = "Update"

(***************************************************************************)
(* The traversal state.                                                    *)
(***************************************************************************)
\* C29: in BFS or DFS mode the discovery order repeats no node, the visited
\* set is the set of nodes in the order, the current node is the last of
\* the order (-1 while the order is empty), and every id in the frontier is
\* the source or a neighbor of a visited node; before the first visit the
\* frontier holds the source alone.
C29_TraversalState ==
    (Mode \in TraversalModes) =>
        /\ Cardinality(SeqRange(Order)) = Len(Order)
        /\ Visited = SeqRange(Order)
        /\ Current = IF Order = <<>> THEN -1 ELSE Order[Len(Order)]
        /\ IF Order = <<>>
           THEN op.name \in {"StartBFS", "StartDFS"} /\ Frontier = <<op.args[1]>>
           ELSE \A id \in SeqRange(Frontier) :
                    \/ id = Order[1]
                    \/ \E v \in Visited : id \in Successors(Graph, v)

\* A traversal under way with an id waiting twice in the frontier.
C29_Witness ==
    /\ Mode \in TraversalModes
    /\ op.name = "Update"
    /\ ~Done
    /\ Len(Order) = 2
    /\ Len(Frontier) >= 2
    /\ Cardinality(SeqRange(Frontier)) < Len(Frontier)

(***************************************************************************)
(* The AVL tree across Reset.                                              *)
(***************************************************************************)
\* C30: Reset leaves the AVL tree as it is, and so does every call other
\* than StartAVL, InsertAVL and DeleteAVL; SearchAVL finds exactly the values
\* the tree holds, InsertAVL adds its value to them and DeleteAVL takes its
\* value from them in whatever mode, Idle included, where they leave the
\* mode alone; StartAVL puts an empty tree in its place.
C30_ResetKeepsTree ==
    [][ /\ (op'.name \notin {"StartAVL", "InsertAVL", "DeleteAVL"}) => avlTree' = avlTree
        /\ (op'.name = "SearchAVL") => (op'.ret[1] # nil <=> op'.args[1] \in TreeValues)
        /\ (op'.name = "InsertAVL") => TreeValues' = TreeValues \cup {op'.args[1]}
        /\ (op'.name = "DeleteAVL") => TreeValues' = TreeValues \ {op'.args[1]}
        /\ (op'.name \in {"InsertAVL", "DeleteAVL"} /\ ~IsNil(avlTree)) => Mode' = Mode
        /\ (op'.name = "StartAVL") => avlTree' = Some(NewAVLTree)
      ]_vars

\* A SearchAVL in Idle mode that finds a value: the tree was built before
\* the Reset that made the mode Idle.
C30_Witness ==
    /\ Mode = "Idle"
    /\ op.name = "SearchAVL"
    /\ op.ret[1] # nil
    /\ op.args[1] \in TreeValues

=============================================================================
